---- MODULE Spec2Model ----
(***************************************************************************)
(* gdev: the streaming terminal modal (package terminal), its output sink  *)
(* and process runner, and the Bubble Tea models that host it (app, todo,  *)
(* commit).  The UI event loop is single-threaded: one message is handled  *)
(* per step.  The runner goroutines of every invocation run concurrently   *)
(* with it and with each other; every sink operation is atomic (mutex).    *)
(*                                                                         *)
(* A line of output is a string without a newline.  A text that is edited, *)
(* trimmed or split is a sequence of tokens (see Strings).                 *)
(***************************************************************************)
EXTENDS Integers, Sequences, FiniteSets, Bags, TLC

VARIABLES
    instanceCounter,  \* terminal: package-level var instanceCounter
    sinks,            \* heap of *sharedOutput, in allocation order
    procs,            \* procs[i]: the goroutines of the invocation that owns sinks[i]
    msgs,             \* bag of messages produced by commands, not yet delivered
    ui,               \* the UI event loop: idle, inside handleTick (after getLines), quit or panicked
    app,              \* app.Model, with the todo.Model and commit.Model it points to
    store,            \* the todo list file of the repository (store.GetTodos / SaveTodos)
    cbLog,            \* history: the TerminalCallback invocations, in order
    conf              \* package config: the keybindings file, the loaded Keybindings, the last key match

vars == <<instanceCounter, sinks, procs, msgs, ui, app, store, cbLog, conf>>

----------------------------------------------------------------------------
(* Bounds *)

MaxSessions == 2      \* terminal.New is called at most this many times
MaxStdout   == 4      \* lines a process writes to stdout, at most
MaxStderr   == 1      \* lines a process writes to stderr, at most
MaxLines    == 4      \* Model.MaxLines as set by New (1000 in the source), scaled down
MaxPending  == 1      \* commands in flight and unhandled messages of commands, at most

\* WindowSizeMsg values the terminal emulator reports (width, height)
ScreenSizes == { <<80, 14>>, <<80, 16>> }

----------------------------------------------------------------------------
(* Values *)

nil == "nil"                       \* Go nil (error)
NoSink == 0                        \* Go nil (*sharedOutput)

ExitErr  == "exit status 1"        \* cmd.Wait() error
SpawnErr == "exec: not found"      \* cmd.Start() / pipe error

\* package config not in use: no keybindings file read or written, no key matched
NoMatch == [fn |-> "none", key |-> "", bindings |-> <<>>, result |-> FALSE]

NoConf ==
    [file |-> [exists |-> FALSE, valid |-> FALSE, doc |-> <<>>], kb |-> <<>>, err |-> nil,
     saved |-> <<>>, op |-> "none", arg |-> 0, ids |-> {}, match |-> NoMatch]

Min(a, b) == IF a < b THEN a ELSE b
Max(a, b) == IF a > b THEN a ELSE b

\* the i-th line a process writes to a stream
StreamLine(stream, i) == (IF stream = "stdout" THEN "o" ELSE "e") \o ToString(i)

TickMsg(id)           == [type |-> "Tick", ID |-> id]
KeyMsg(k)             == [type |-> "Key", key |-> k]
WindowSizeMsg(w, h)   == [type |-> "WindowSize", Width |-> w, Height |-> h]

\* tea.KeyMsg.Type of the cursor keys; every other key is reported by its string
KeyType(msg) ==
    CASE msg.key = "up" -> "KeyUp" [] msg.key = "down" -> "KeyDown"
      [] msg.key = "left" -> "KeyLeft" [] msg.key = "right" -> "KeyRight"
      [] msg.key = "home" -> "KeyHome" [] msg.key = "end" -> "KeyEnd"
      [] OTHER -> "KeyRunes"

----------------------------------------------------------------------------
(* Strings.  A Go string is a sequence of tokens; a token is one character  *)
(* or an unbroken word that no operation splits.  "\n" is the newline.      *)

Whitespace == {" ", "\n", "\t"}

RECURSIVE TrimLeft(_)
TrimLeft(s) == IF s # <<>> /\ Head(s) \in Whitespace THEN TrimLeft(Tail(s)) ELSE s

RECURSIVE TrimRight(_)
TrimRight(s) ==
    IF s # <<>> /\ s[Len(s)] \in Whitespace THEN TrimRight(SubSeq(s, 1, Len(s) - 1)) ELSE s

\* strings.TrimSpace
TrimSpace(s) == TrimRight(TrimLeft(s))

\* strings.Split(s, "\n")
RECURSIVE SplitLines(_)
SplitLines(s) ==
    IF \A i \in DOMAIN s : s[i] # "\n" THEN <<s>>
    ELSE LET i == CHOOSE j \in DOMAIN s : s[j] = "\n" /\ \A k \in 1..(j - 1) : s[k] # "\n"
         IN <<SubSeq(s, 1, i - 1)>> \o SplitLines(SubSeq(s, i + 1, Len(s)))

\* s[:c] + tok + s[c:]
Insert(s, c, toks) == SubSeq(s, 1, c) \o toks \o SubSeq(s, c + 1, Len(s))

\* s[:c-1] + s[c:] for c >= 1
DeleteAt(s, c) == SubSeq(s, 1, c - 1) \o SubSeq(s, c + 1, Len(s))

\* for cursor > 0 && text[cursor-1] != '\n' { cursor-- }
RECURSIVE ToLineStart(_, _)
ToLineStart(s, c) == IF c > 0 /\ s[c] # "\n" THEN ToLineStart(s, c - 1) ELSE c

\* for cursor < len(text) && text[cursor] != '\n' { cursor++ }
RECURSIVE ToLineEnd(_, _)
ToLineEnd(s, c) == IF c < Len(s) /\ s[c + 1] # "\n" THEN ToLineEnd(s, c + 1) ELSE c

\* len(key) == 1: the key is a single printable character
IsRune(key) == Len(key) = 1

\* len(s): the number of bytes of the string, the tokens being ASCII words
RECURSIVE ByteLen(_)
ByteLen(s) == IF s = <<>> THEN 0 ELSE Len(Head(s)) + ByteLen(Tail(s))

\* s[:n] for n <= len(s): the first n bytes; the token that holds byte n is cut there
RECURSIVE Truncate(_, _)
Truncate(s, n) ==
    IF s = <<>> \/ n = 0 THEN <<>>
    ELSE IF Len(Head(s)) <= n THEN <<Head(s)>> \o Truncate(Tail(s), n - Len(Head(s)))
    ELSE <<SubSeq(Head(s), 1, n)>>

----------------------------------------------------------------------------
(* package config *)

DefaultKeybindings ==
    [Global |-> [Quit |-> "esc", QuitAlt |-> "q", Help |-> "?", MoveUp |-> "k", MoveDown |-> "j",
                 MoveUpAlt |-> "up", MoveDownAlt |-> "down"],
     List   |-> [Select |-> "enter", New |-> "n", Delete |-> "d", Edit |-> "e", Top |-> "g",
                 Bottom |-> "G", PageUp |-> "ctrl+u", PageDown |-> "ctrl+d"],
     Form   |-> [Submit |-> "ctrl+s", Cancel |-> "esc", NextField |-> "tab", PrevField |-> "shift+tab",
                 AddPrompt |-> "ctrl+a", DeletePrompt |-> "ctrl+d", EditPrompt |-> "ctrl+e",
                 ImprovePrompt |-> "ctrl+i"],
     Editor |-> [Save |-> "ctrl+s", Cancel |-> "esc", LineStart |-> "ctrl+a", LineEnd |-> "ctrl+e",
                 DeleteLine |-> "ctrl+k", NewLine |-> "enter"],
     Detail |-> [Back |-> "esc", Edit |-> "e", Delete |-> "d", ScrollUp |-> "k", ScrollDown |-> "j"]]

\* Config.Keys(): the keybindings in force (the defaults written on first start)
kb == DefaultKeybindings

\* the json tags of the Keybindings struct and of its five section structs
SectionTag ==
    [Global |-> "global", List |-> "list", Form |-> "form", Editor |-> "editor", Detail |-> "detail"]

FieldTag ==
    [Global |-> [Quit |-> "quit", QuitAlt |-> "quit_alt", Help |-> "help", MoveUp |-> "move_up",
                 MoveDown |-> "move_down", MoveUpAlt |-> "move_up_alt", MoveDownAlt |-> "move_down_alt"],
     List   |-> [Select |-> "select", New |-> "new", Delete |-> "delete", Edit |-> "edit", Top |-> "top",
                 Bottom |-> "bottom", PageUp |-> "page_up", PageDown |-> "page_down"],
     Form   |-> [Submit |-> "submit", Cancel |-> "cancel", NextField |-> "next_field",
                 PrevField |-> "prev_field", AddPrompt |-> "add_prompt", DeletePrompt |-> "delete_prompt",
                 EditPrompt |-> "edit_prompt", ImprovePrompt |-> "improve_prompt"],
     Editor |-> [Save |-> "save", Cancel |-> "cancel", LineStart |-> "line_start", LineEnd |-> "line_end",
                 DeleteLine |-> "delete_line", NewLine |-> "new_line"],
     Detail |-> [Back |-> "back", Edit |-> "edit", Delete |-> "delete", ScrollUp |-> "scroll_up",
                 ScrollDown |-> "scroll_down"]]

Sections == DOMAIN DefaultKeybindings
Fields(sec) == DOMAIN DefaultKeybindings[sec]

\* var kb Keybindings: every field the empty string
ZeroKeybindings == [sec \in Sections |-> [f \in Fields(sec) |-> ""]]

\* encoding/json, string values: the encoder escapes the quote, the backslash and (HTML escaping
\* is on in MarshalIndent) '<', '>' and '&'; the decoder undoes the escapes
EscapeChar(c) ==
    CASE c = "\"" -> "\\\""
      [] c = "\\" -> "\\\\"
      [] c = "<"  -> "\\u003c"
      [] c = ">"  -> "\\u003e"
      [] c = "&"  -> "\\u0026"
      [] OTHER    -> c

RECURSIVE EscapeFrom(_, _)
EscapeFrom(str, i) ==
    IF i > Len(str) THEN "" ELSE EscapeChar(SubSeq(str, i, i)) \o EscapeFrom(str, i + 1)

Quote(str) == "\"" \o EscapeFrom(str, 1) \o "\""

HexRune == ("003c" :> "<") @@ ("003e" :> ">") @@ ("0026" :> "&")

RECURSIVE UnescapeFrom(_, _)
UnescapeFrom(str, i) ==
    IF i > Len(str) THEN ""
    ELSE LET c == SubSeq(str, i, i)
         IN IF c # "\\" THEN c \o UnescapeFrom(str, i + 1)
            ELSE IF SubSeq(str, i + 1, i + 1) = "u"
                 THEN HexRune[SubSeq(str, i + 2, i + 5)] \o UnescapeFrom(str, i + 6)
                 ELSE SubSeq(str, i + 1, i + 1) \o UnescapeFrom(str, i + 2)

Unquote(q) == UnescapeFrom(SubSeq(q, 2, Len(q) - 1), 1)

\* json.MarshalIndent of a Keybindings: an object of the five section objects, each member
\* named by its json tag and holding the quoted field
Marshal(k) ==
    [st \in {SectionTag[sec] : sec \in Sections} |->
        LET sec == CHOOSE x \in Sections : SectionTag[x] = st
        IN [ft \in {FieldTag[sec][f] : f \in Fields(sec)} |->
               LET f == CHOOSE x \in Fields(sec) : FieldTag[sec][x] = ft
               IN Quote(k[sec][f])]]

\* json.Unmarshal into a zero Keybindings: a field is set from the member its tag names and
\* keeps the empty string when the document has no such member
Unmarshal(doc) ==
    [sec \in Sections |->
        [f \in Fields(sec) |->
            IF SectionTag[sec] \in DOMAIN doc /\ FieldTag[sec][f] \in DOMAIN doc[SectionTag[sec]]
            THEN Unquote(doc[SectionTag[sec]][FieldTag[sec][f]])
            ELSE ZeroKeybindings[sec][f]]]

\* the file keybindings.json of the store: absent, not decodable, or a JSON document
NoFile == [exists |-> FALSE, valid |-> FALSE, doc |-> <<>>]
CorruptFile == [exists |-> TRUE, valid |-> FALSE, doc |-> <<>>]
JSONFile(doc) == [exists |-> TRUE, valid |-> TRUE, doc |-> doc]

\* store.ErrNotFound, and the errors of the operating system and of the decoder
ErrNotFound == "not found"
ReadErr == "read error"
WriteErr == "write error"
SyntaxErr == "invalid character"

\* Store.ReadJSON(keybindingsFile, &kb): the outcomes, each the error and the decoded value
ReadJSON(file) ==
    {[err |-> ReadErr, v |-> ZeroKeybindings]}
    \cup (IF ~file.exists THEN {[err |-> ErrNotFound, v |-> ZeroKeybindings]}
          ELSE IF ~file.valid THEN {[err |-> SyntaxErr, v |-> ZeroKeybindings]}
          ELSE {[err |-> nil, v |-> Unmarshal(file.doc)]})

\* Store.WriteJSON(keybindingsFile, kb): the outcomes, each the error and the file left behind
\* (os.WriteFile truncates before it writes, so a failed write may leave a damaged file)
WriteJSON(file, k) ==
    {[err |-> nil, file |-> JSONFile(Marshal(k))],
     [err |-> WriteErr, file |-> file],
     [err |-> WriteErr, file |-> CorruptFile]}

SaveKeybindings(file, k) == WriteJSON(file, k)

\* mergeWithDefaults that fills in a default only when the whole section is empty
mergeWithDefaults_WholeSection(k) ==
    [sec \in Sections |->
        IF \A f \in Fields(sec) : k[sec][f] = "" THEN DefaultKeybindings[sec] ELSE k[sec]]

\* every empty field takes its default
mergeWithDefaults(k) ==
    [sec \in Sections |->
        [f \in Fields(sec) |-> IF k[sec][f] = "" THEN DefaultKeybindings[sec][f] ELSE k[sec][f]]]

\* LoadKeybindings(s): the outcomes, each the returned pointer (a sequence of at most one
\* Keybindings), the error and the file left behind
LoadKeybindings(file) ==
    UNION {
        IF r.err = ErrNotFound
        THEN {[kb |-> IF w.err # nil THEN <<>> ELSE <<DefaultKeybindings>>, err |-> w.err, file |-> w.file]
                  : w \in SaveKeybindings(file, DefaultKeybindings)}
        ELSE IF r.err # nil THEN {[kb |-> <<>>, err |-> r.err, file |-> file]}
        ELSE {[kb |-> <<mergeWithDefaults(r.v)>>, err |-> nil, file |-> file]}
      : r \in ReadJSON(file)}

\* strings.HasPrefix, strings.TrimPrefix
HasPrefix(s, prefix) == Len(s) >= Len(prefix) /\ SubSeq(s, 1, Len(prefix)) = prefix
TrimPrefix(s, prefix) == IF HasPrefix(s, prefix) THEN SubSeq(s, Len(prefix) + 1, Len(s)) ELSE s

\* strings.ToUpper of the one-byte strings 'a' .. 'z'
ToUpper ==
    ("a" :> "A") @@ ("b" :> "B") @@ ("c" :> "C") @@ ("d" :> "D") @@ ("e" :> "E") @@ ("f" :> "F")
    @@ ("g" :> "G") @@ ("h" :> "H") @@ ("i" :> "I") @@ ("j" :> "J") @@ ("k" :> "K") @@ ("l" :> "L")
    @@ ("m" :> "M") @@ ("n" :> "N") @@ ("o" :> "O") @@ ("p" :> "P") @@ ("q" :> "Q") @@ ("r" :> "R")
    @@ ("s" :> "S") @@ ("t" :> "T") @@ ("u" :> "U") @@ ("v" :> "V") @@ ("w" :> "W") @@ ("x" :> "X")
    @@ ("y" :> "Y") @@ ("z" :> "Z")

\* normalizeBinding that strips "shift+" from every binding that has it
normalizeBinding_AnyShift(binding) ==
    IF HasPrefix(binding, "shift+")
    THEN LET letter == TrimPrefix(binding, "shift+")
         IN IF Len(letter) = 1 /\ letter \in DOMAIN ToUpper THEN ToUpper[letter] ELSE letter
    ELSE binding

\* "shift+x" becomes "X" for the letter keys; every other binding is left as it is
normalizeBinding(binding) ==
    IF HasPrefix(binding, "shift+")
    THEN LET letter == TrimPrefix(binding, "shift+")
         IN IF Len(letter) = 1 /\ letter \in DOMAIN ToUpper THEN ToUpper[letter] ELSE binding
    ELSE binding

Matches(key, binding) == key = normalizeBinding(binding)

\* MatchesAny that looks at the first binding only
MatchesAny_FirstOnly(key, bindings) == bindings # <<>> /\ key = normalizeBinding(bindings[1])

MatchesAny(key, bindings) == \E i \in DOMAIN bindings : key = normalizeBinding(bindings[i])

----------------------------------------------------------------------------
(* sharedOutput: the output sink *)

NewSharedOutput == [lines |-> <<>>, done |-> FALSE, err |-> nil]

\* an append that is not serialised with a concurrent one: the other writer's line is overwritten
addLine_LostUpdate(s, line) ==
    [s EXCEPT !.lines = IF Len(s.lines) > 0 THEN Append(SubSeq(s.lines, 1, Len(s.lines) - 1), line)
                        ELSE <<line>>]

addLine(s, line) == [s EXCEPT !.lines = Append(s.lines, line)]

\* a snapshot of a bounded window of the buffer instead of the whole buffer
getLines_Tail(s) ==
    IF Len(s.lines) > MaxLines THEN SubSeq(s.lines, Len(s.lines) - MaxLines + 1, Len(s.lines))
    ELSE s.lines

getLines(s) == s.lines

\* the sink marked done without the error being recorded
setDone_DropsErr(s, err) == [s EXCEPT !.done = TRUE]

setDone(s, err) == [s EXCEPT !.done = TRUE, !.err = err]

isDone(s) == [done |-> s.done, err |-> s.err]

----------------------------------------------------------------------------
(* terminal.Model *)

\* styles.Help.Render("$ " + m.Command)
Header(command) == "$ " \o command

StatusLine(err) == IF err # nil THEN "Error: " \o err ELSE "ok Command completed"

ZeroTerminal ==
    [ID |-> 0, Command |-> "", Lines |-> <<>>, ScrollPos |-> 0, MaxLines |-> 0,
     Running |-> FALSE, Err |-> nil, AutoScroll |-> FALSE,
     Width |-> 0, Height |-> 0, output |-> NoSink]

\* a constructor that hands out the same ID to every instance
New_SameID(counter) ==
    [ID |-> 1, Command |-> "", Lines |-> <<>>, ScrollPos |-> 0,
     MaxLines |-> MaxLines, Running |-> FALSE, Err |-> nil, AutoScroll |-> TRUE,
     Width |-> 80, Height |-> 20, output |-> NoSink]

New(counter) ==
    [ID |-> counter + 1, Command |-> "", Lines |-> <<>>, ScrollPos |-> 0,
     MaxLines |-> MaxLines, Running |-> FALSE, Err |-> nil, AutoScroll |-> TRUE,
     Width |-> 80, Height |-> 20, output |-> NoSink]

SetSize(m, width, height) ==
    LET w == (width * 80) \div 100
        h == (height * 70) \div 100
    IN [m EXCEPT !.Width  = IF w < 60 THEN 60 ELSE IF w > 120 THEN 120 ELSE w,
                 !.Height = IF h < 10 THEN 10 ELSE IF h > 40 THEN 40 ELSE h]

visibleLines(m) == m.Height - 6

maxScroll(m) ==
    LET max == Len(m.Lines) - visibleLines(m)
    IN IF max < 0 THEN 0 ELSE max

tick(m) == TickMsg(m.ID)

\* an invocation that keeps using the sink of the first invocation of the run
RunCommandWithEnv_SharedSink(m, command, sink) ==
    [m EXCEPT !.Command = command, !.Running = TRUE,
              !.Lines = <<Header(command), "">>,
              !.ScrollPos = 0, !.Err = nil, !.output = 1]

\* an invocation that keeps the display buffer and the error of the model it is called on
RunCommandWithEnv_KeepsBuffers(m, command, sink) ==
    [m EXCEPT !.Command = command, !.Running = TRUE, !.output = sink]

\* the model fields set by RunCommandWithEnv; sink is the freshly allocated sharedOutput
RunCommandWithEnv(m, command, sink) ==
    [m EXCEPT !.Command = command, !.Running = TRUE,
              !.Lines = <<Header(command), "">>,
              !.ScrollPos = 0, !.Err = nil, !.output = sink]

\* a handleTick that goes on polling after it has seen the sink done
handleTick_KeepsPolling(m, newLines, st) ==
    LET m1 == IF Len(newLines) > 0
              THEN [m EXCEPT !.Lines = <<Header(m.Command), "">> \o newLines]
              ELSE m
        m2 == IF Len(m1.Lines) > m1.MaxLines
              THEN [m1 EXCEPT !.Lines = SubSeq(m1.Lines, Len(m1.Lines) - m1.MaxLines + 1, Len(m1.Lines))]
              ELSE m1
        m3 == IF m2.AutoScroll THEN [m2 EXCEPT !.ScrollPos = maxScroll(m2)] ELSE m2
        m4 == [m3 EXCEPT !.Running = FALSE, !.Err = st.err,
                         !.Lines = m3.Lines \o <<"", StatusLine(st.err)>>]
        m5 == IF m4.AutoScroll THEN [m4 EXCEPT !.ScrollPos = maxScroll(m4)] ELSE m4
    IN IF m.output = NoSink THEN [m |-> m, cmd |-> {}]
       ELSE IF st.done THEN [m |-> m5, cmd |-> {tick(m5)}]
       ELSE [m |-> m3, cmd |-> {tick(m3)}]

\* a handleTick that polls once and never schedules the next tick
handleTick_NoReschedule(m, newLines, st) ==
    LET m1 == IF Len(newLines) > 0
              THEN [m EXCEPT !.Lines = <<Header(m.Command), "">> \o newLines]
              ELSE m
        m2 == IF Len(m1.Lines) > m1.MaxLines
              THEN [m1 EXCEPT !.Lines = SubSeq(m1.Lines, Len(m1.Lines) - m1.MaxLines + 1, Len(m1.Lines))]
              ELSE m1
        m3 == IF m2.AutoScroll THEN [m2 EXCEPT !.ScrollPos = maxScroll(m2)] ELSE m2
        m4 == [m3 EXCEPT !.Running = FALSE, !.Err = st.err,
                         !.Lines = m3.Lines \o <<"", StatusLine(st.err)>>]
        m5 == IF m4.AutoScroll THEN [m4 EXCEPT !.ScrollPos = maxScroll(m4)] ELSE m4
    IN IF m.output = NoSink THEN [m |-> m, cmd |-> {}]
       ELSE IF st.done THEN [m |-> m5, cmd |-> {}]
       ELSE [m |-> m3, cmd |-> {}]

\* a handleTick that does not scroll again after it has appended the status line
handleTick_NoScrollAfterStatus(m, newLines, st) ==
    LET m1 == IF Len(newLines) > 0
              THEN [m EXCEPT !.Lines = <<Header(m.Command), "">> \o newLines]
              ELSE m
        m2 == IF Len(m1.Lines) > m1.MaxLines
              THEN [m1 EXCEPT !.Lines = SubSeq(m1.Lines, Len(m1.Lines) - m1.MaxLines + 1, Len(m1.Lines))]
              ELSE m1
        m3 == IF m2.AutoScroll THEN [m2 EXCEPT !.ScrollPos = maxScroll(m2)] ELSE m2
        m4 == [m3 EXCEPT !.Running = FALSE, !.Err = st.err,
                         !.Lines = m3.Lines \o <<"", StatusLine(st.err)>>]
    IN IF m.output = NoSink THEN [m |-> m, cmd |-> {}]
       ELSE IF st.done THEN [m |-> m4, cmd |-> {}]
       ELSE [m |-> m3, cmd |-> {tick(m3)}]

\* newLines: result of output.getLines(); st: result of the later output.isDone()
handleTick(m, newLines, st) ==
    LET m1 == IF Len(newLines) > 0
              THEN [m EXCEPT !.Lines = <<Header(m.Command), "">> \o newLines]
              ELSE m
        m2 == IF Len(m1.Lines) > m1.MaxLines
              THEN [m1 EXCEPT !.Lines = SubSeq(m1.Lines, Len(m1.Lines) - m1.MaxLines + 1, Len(m1.Lines))]
              ELSE m1
        m3 == IF m2.AutoScroll THEN [m2 EXCEPT !.ScrollPos = maxScroll(m2)] ELSE m2
        m4 == [m3 EXCEPT !.Running = FALSE, !.Err = st.err,
                         !.Lines = m3.Lines \o <<"", StatusLine(st.err)>>]
        m5 == IF m4.AutoScroll THEN [m4 EXCEPT !.ScrollPos = maxScroll(m4)] ELSE m4
    IN IF m.output = NoSink THEN [m |-> m, cmd |-> {}]
       ELSE IF st.done THEN [m |-> m5, cmd |-> {}]
       ELSE [m |-> m3, cmd |-> {tick(m3)}]

\* jumps that move the offset and leave the auto-scroll flag as it is
handleKey_JumpKeepsAuto(m, msg) ==
    LET key == msg.key
        pgUp == m.ScrollPos - visibleLines(m)
        pgDn == m.ScrollPos + visibleLines(m)
        down == IF m.ScrollPos < maxScroll(m) THEN m.ScrollPos + 1 ELSE m.ScrollPos
        pgDnC == IF pgDn > maxScroll(m) THEN maxScroll(m) ELSE pgDn
    IN IF MatchesAny(key, <<kb.Global.MoveUp, kb.Global.MoveUpAlt>>) \/ KeyType(msg) = "KeyUp"
       THEN [m EXCEPT !.AutoScroll = FALSE,
                      !.ScrollPos = IF m.ScrollPos > 0 THEN m.ScrollPos - 1 ELSE m.ScrollPos]
       ELSE IF MatchesAny(key, <<kb.Global.MoveDown, kb.Global.MoveDownAlt>>) \/ KeyType(msg) = "KeyDown"
       THEN [m EXCEPT !.ScrollPos = down,
                      !.AutoScroll = IF down >= maxScroll(m) THEN TRUE ELSE m.AutoScroll]
       ELSE IF Matches(key, kb.List.PageUp)
       THEN [m EXCEPT !.AutoScroll = FALSE, !.ScrollPos = IF pgUp < 0 THEN 0 ELSE pgUp]
       ELSE IF Matches(key, kb.List.PageDown)
       THEN [m EXCEPT !.ScrollPos = pgDnC,
                      !.AutoScroll = IF pgDnC >= maxScroll(m) THEN TRUE ELSE m.AutoScroll]
       ELSE IF Matches(key, kb.List.Top)
       THEN [m EXCEPT !.ScrollPos = 0]
       ELSE IF Matches(key, kb.List.Bottom)
       THEN [m EXCEPT !.ScrollPos = maxScroll(m)]
       ELSE m

handleKey(m, msg) ==
    LET key == msg.key
        pgUp == m.ScrollPos - visibleLines(m)
        pgDn == m.ScrollPos + visibleLines(m)
        down == IF m.ScrollPos < maxScroll(m) THEN m.ScrollPos + 1 ELSE m.ScrollPos
        pgDnC == IF pgDn > maxScroll(m) THEN maxScroll(m) ELSE pgDn
    IN IF MatchesAny(key, <<kb.Global.MoveUp, kb.Global.MoveUpAlt>>) \/ KeyType(msg) = "KeyUp"
       THEN [m EXCEPT !.AutoScroll = FALSE,
                      !.ScrollPos = IF m.ScrollPos > 0 THEN m.ScrollPos - 1 ELSE m.ScrollPos]
       ELSE IF MatchesAny(key, <<kb.Global.MoveDown, kb.Global.MoveDownAlt>>) \/ KeyType(msg) = "KeyDown"
       THEN [m EXCEPT !.ScrollPos = down,
                      !.AutoScroll = IF down >= maxScroll(m) THEN TRUE ELSE m.AutoScroll]
       ELSE IF Matches(key, kb.List.PageUp)
       THEN [m EXCEPT !.AutoScroll = FALSE, !.ScrollPos = IF pgUp < 0 THEN 0 ELSE pgUp]
       ELSE IF Matches(key, kb.List.PageDown)
       THEN [m EXCEPT !.ScrollPos = pgDnC,
                      !.AutoScroll = IF pgDnC >= maxScroll(m) THEN TRUE ELSE m.AutoScroll]
       ELSE IF Matches(key, kb.List.Top)
       THEN [m EXCEPT !.AutoScroll = FALSE, !.ScrollPos = 0]
       ELSE IF Matches(key, kb.List.Bottom)
       THEN [m EXCEPT !.ScrollPos = maxScroll(m), !.AutoScroll = TRUE]
       ELSE m

\* an Update that hands every TickMsg to handleTick, whatever its ID
TerminalUpdate_NoIDCheck(m, msg, newLines) ==
    CASE msg.type = "WindowSize" -> [m |-> SetSize(m, msg.Width, msg.Height), cmd |-> {}]
      [] msg.type = "Tick" ->
            handleTick(m, IF m.output = NoSink THEN <<>> ELSE getLines(sinks[m.output]),
                       IF m.output = NoSink THEN isDone(NewSharedOutput) ELSE isDone(sinks[m.output]))
      [] msg.type = "Key" -> [m |-> handleKey(m, msg), cmd |-> {}]
      [] OTHER -> [m |-> m, cmd |-> {}]

\* terminal.Model.Update; newLines is what getLines returned when handleTick called it
\* the variant that also schedules a tick when a key is forwarded to a running modal
TerminalUpdate_KeyTicks(m, msg, newLines) ==
    CASE msg.type = "WindowSize" -> [m |-> SetSize(m, msg.Width, msg.Height), cmd |-> {}]
      [] msg.type = "Tick" ->
            IF msg.ID # m.ID THEN [m |-> m, cmd |-> {}]
            ELSE handleTick(m, newLines, IF m.output = NoSink THEN isDone(NewSharedOutput)
                                         ELSE isDone(sinks[m.output]))
      [] msg.type = "Key" -> [m |-> handleKey(m, msg), cmd |-> IF m.Running THEN {tick(m)} ELSE {}]
      [] OTHER -> [m |-> m, cmd |-> {}]

TerminalUpdate(m, msg, newLines) ==
    CASE msg.type = "WindowSize" -> [m |-> SetSize(m, msg.Width, msg.Height), cmd |-> {}]
      [] msg.type = "Tick" ->
            IF msg.ID # m.ID THEN [m |-> m, cmd |-> {}]
            ELSE handleTick(m, newLines, IF m.output = NoSink THEN isDone(NewSharedOutput)
                                         ELSE isDone(sinks[m.output]))
      [] msg.type = "Key" -> [m |-> handleKey(m, msg), cmd |-> {}]
      [] OTHER -> [m |-> m, cmd |-> {}]

\* a View that reads visibleLines() lines from ScrollPos without looking at len(m.Lines)
ViewReads_Unclamped(m) ==
    LET start == m.ScrollPos
        end == start + visibleLines(m)
    IN {i \in start..(end - 1) : TRUE}

\* Model.View: the indices i of the reads m.Lines[i] of the loop 'for i := start; i < end; i++'
ViewReads(m) ==
    LET start == m.ScrollPos
        e == start + visibleLines(m)
        end == IF e > Len(m.Lines) THEN Len(m.Lines) ELSE e
    IN {i \in start..(end - 1) : TRUE}

\* Model.View: the content area, the lines read followed by the padding up to visibleLines()
ViewContent(m) ==
    LET start == m.ScrollPos
        e == start + visibleLines(m)
        end == IF e > Len(m.Lines) THEN Len(m.Lines) ELSE e
        n == IF end > start THEN end - start ELSE 0
    IN [k \in 1..Max(n, visibleLines(m)) |-> IF k <= n THEN m.Lines[start + k] ELSE ""]

ShouldClose(m, msg) == MatchesAny(msg.key, <<kb.Global.Quit, kb.Global.QuitAlt>>)

GetOutput(m) == IF Len(m.Lines) <= 2 THEN <<>> ELSE SubSeq(m.Lines, 3, Len(m.Lines))

\* every line terminated by a newline instead of the lines separated by one
RECURSIVE Join_Terminated(_)
Join_Terminated(lines) ==
    IF lines = <<>> THEN <<>>
    ELSE LET h == IF Head(lines) = "" THEN <<>> ELSE <<Head(lines)>>
         IN h \o <<"\n">> \o Join_Terminated(Tail(lines))

\* strings.Join(lines, "\n"): every non-empty line is one token
RECURSIVE Join(_)
Join(lines) ==
    IF lines = <<>> THEN <<>>
    ELSE LET h == IF Head(lines) = "" THEN <<>> ELSE <<Head(lines)>>
         IN IF Len(lines) = 1 THEN h ELSE h \o <<"\n">> \o Join(Tail(lines))

\* the output taken from the display buffer instead of the sink
GetRawOutput_FromDisplay(m) == Join(GetOutput(m))

GetRawOutput(m) == IF m.output = NoSink THEN <<>> ELSE Join(getLines(sinks[m.output]))

----------------------------------------------------------------------------
(* executeCommandStreaming and its goroutines *)

\* goroutine started by RunCommandWithEnv, about to call executeCommandStreaming
NewProc == [pc |-> "start", ret |-> nil,
            rd |-> [stdout |-> "none", stderr |-> "none"],
            n  |-> [stdout |-> 0, stderr |-> 0]]

StreamBound(stream) == IF stream = "stdout" THEN MaxStdout ELSE MaxStderr

\* StdoutPipe, StderrPipe or Start fails: executeCommandStreaming returns the error
ProcStartFails(i) ==
    /\ procs[i].pc = "start"
    /\ procs' = [procs EXCEPT ![i].pc = "return", ![i].ret = SpawnErr]
    /\ UNCHANGED <<instanceCounter, sinks, msgs, ui, app, store, cbLog, conf>>

\* cmd.Start succeeds; both readPipeToOutput goroutines are started, then wg.Wait()
ProcStart(i) ==
    /\ procs[i].pc = "start"
    /\ procs' = [procs EXCEPT ![i].pc = "reading",
                              ![i].rd = [stdout |-> "run", stderr |-> "run"]]
    /\ UNCHANGED <<instanceCounter, sinks, msgs, ui, app, store, cbLog, conf>>

\* readPipeToOutput: scanner.Scan() returns a line, output.addLine(scanner.Text())
ReadLine(i, stream) ==
    /\ procs[i].rd[stream] = "run"
    /\ procs[i].n[stream] < StreamBound(stream)
    /\ sinks' = [sinks EXCEPT ![i] = addLine(@, StreamLine(stream, procs[i].n[stream] + 1))]
    /\ procs' = [procs EXCEPT ![i].n[stream] = @ + 1]
    /\ UNCHANGED <<instanceCounter, msgs, ui, app, store, cbLog, conf>>

\* readPipeToOutput: scanner.Scan() returns false (end of stream or read error), wg.Done()
ReaderEnd(i, stream) ==
    /\ procs[i].rd[stream] = "run"
    /\ procs' = [procs EXCEPT ![i].rd[stream] = "done"]
    /\ UNCHANGED <<instanceCounter, sinks, msgs, ui, app, store, cbLog, conf>>

\* cmd.Wait() without the preceding wg.Wait()
ProcWait_NoWaitGroup(i, err) ==
    /\ procs[i].pc = "reading"
    /\ procs' = [procs EXCEPT ![i].pc = "return", ![i].ret = err]
    /\ UNCHANGED <<instanceCounter, sinks, msgs, ui, app, store, cbLog, conf>>

\* wg.Wait() returns once both readers called wg.Done(); cmd.Wait() returns the exit status
ProcWait(i, err) ==
    /\ procs[i].pc = "reading"
    /\ procs[i].rd["stdout"] = "done" /\ procs[i].rd["stderr"] = "done"
    /\ procs' = [procs EXCEPT ![i].pc = "return", ![i].ret = err]
    /\ UNCHANGED <<instanceCounter, sinks, msgs, ui, app, store, cbLog, conf>>

\* a goroutine that marks the sink done without waiting for
\* executeCommandStreaming to return
ProcSetDone_BeforeReturn(i) ==
    /\ procs[i].pc \in {"reading", "return"}
    /\ sinks' = [sinks EXCEPT ![i] = setDone(@, procs[i].ret)]
    /\ procs' = [procs EXCEPT ![i].pc = "exited"]
    /\ UNCHANGED <<instanceCounter, msgs, ui, app, store, cbLog, conf>>

\* the goroutine of RunCommandWithEnv: output.setDone(err)
ProcSetDone(i) ==
    /\ procs[i].pc = "return"
    /\ sinks' = [sinks EXCEPT ![i] = setDone(@, procs[i].ret)]
    /\ procs' = [procs EXCEPT ![i].pc = "exited"]
    /\ UNCHANGED <<instanceCounter, msgs, ui, app, store, cbLog, conf>>

----------------------------------------------------------------------------
(* package store and package todo: the persisted todo list of the repository *)

NoTodo == [ID |-> 0, Branch |-> <<>>, Name |-> <<>>, Description |-> <<>>, Prompts |-> <<>>]

\* todo.NewTodo; id stands for generateID()
NewTodo(id, branch, name, description, prompts) ==
    [ID |-> id, Branch |-> branch, Name |-> name, Description |-> description, Prompts |-> prompts]

\* Store.AddTodo
AddTodo(list, t) == [err |-> nil, list |-> Append(list, t)]

\* Store.UpdateTodo
UpdateTodo(list, t) ==
    IF \E i \in DOMAIN list : list[i].ID = t.ID
    THEN LET i == CHOOSE j \in DOMAIN list : list[j].ID = t.ID /\ \A k \in 1..(j - 1) : list[k].ID # t.ID
         IN [err |-> nil, list |-> [list EXCEPT ![i] = t]]
    ELSE [err |-> ErrNotFound, list |-> list]

\* the variant that cuts the list at the entry
DeleteTodo_DropsTail(list, todoID) ==
    IF \E i \in DOMAIN list : list[i].ID = todoID
    THEN LET i == CHOOSE j \in DOMAIN list : list[j].ID = todoID /\ \A k \in 1..(j - 1) : list[k].ID # todoID
         IN [err |-> nil, list |-> SubSeq(list, 1, i - 1)]
    ELSE [err |-> ErrNotFound, list |-> list]

\* Store.DeleteTodo
DeleteTodo(list, todoID) ==
    IF \E i \in DOMAIN list : list[i].ID = todoID
    THEN LET i == CHOOSE j \in DOMAIN list : list[j].ID = todoID /\ \A k \in 1..(j - 1) : list[k].ID # todoID
         IN [err |-> nil, list |-> SubSeq(list, 1, i - 1) \o SubSeq(list, i + 1, Len(list))]
    ELSE [err |-> ErrNotFound, list |-> list]

----------------------------------------------------------------------------
(* todo.Model (internal/ui/todo) *)

FieldBranch      == 0
FieldName        == 1
FieldDescription == 2
FieldPrompts     == 3

\* nil func; a closure of openImprovePromptTerminal captures idx (sid records
\* the terminal session it was created for)
NoCallback == [idx |-> -1, sid |-> 0]

LoadTodosCmd      == [type |-> "CmdLoadTodos"]
TodoSavedMsg      == [type |-> "TodoSaved"]
TodoDeletedMsg    == [type |-> "TodoDeleted"]
TodoErrorMsg(err) == [type |-> "TodoError", Err |-> err]
TodosLoadedMsg(l) == [type |-> "TodosLoaded", Todos |-> l]
TodoBackToMenuMsg == [type |-> "TodoBackToMenu"]

NewTodoModel(branch) ==
    [Branch |-> branch, CurrentView |-> "ListView", Todos |-> <<>>, Cursor |-> 0,
     SelectedTodo |-> NoTodo,
     FormBranch |-> <<>>, FormName |-> <<>>, FormDescription |-> <<>>, FormPrompts |-> << <<>> >>,
     FormField |-> FieldBranch, FormPromptIdx |-> 0, FormEditing |-> FALSE, FormEditingTodo |-> NoTodo,
     DeleteTarget |-> NoTodo, EditorContent |-> <<>>, EditorCursorPos |-> 0, PreviousView |-> "ListView",
     ListScroll |-> 0, DetailScroll |-> 0, Width |-> 0, Height |-> 0,
     ErrMsg |-> "", Loading |-> FALSE, Improving |-> FALSE,
     Terminal |-> ZeroTerminal, TerminalCallback |-> NoCallback]

\* result of a handler: the new model, the messages and store commands its tea.Cmd
\* produces, whether a terminal session was started, the callback invocations
\* it made, and whether it panicked (index out of range)
TR(m) == [m |-> m, cmds |-> {}, spawn |-> FALSE, calls |-> <<>>, panic |-> FALSE]

\* m.FormPrompts of the todo that is opened for editing
PromptsOf(t) == IF Len(t.Prompts) = 0 THEN << <<>> >> ELSE t.Prompts

OpenEdit(m, t) ==
    [m EXCEPT !.FormEditingTodo = t, !.FormBranch = t.Branch, !.FormName = t.Name,
              !.FormDescription = t.Description, !.FormPrompts = PromptsOf(t),
              !.FormField = FieldBranch, !.FormPromptIdx = 0, !.CurrentView = "EditView"]

UpdateListView(m, msg) ==
    LET vi0 == (m.Height - 10) \div 5
        visibleItems == IF vi0 < 1 THEN 1 ELSE vi0
        key == msg.key
        n == Len(m.Todos)
        up == m.Cursor - 1
        dn == m.Cursor + 1
        pu == IF m.Cursor - visibleItems < 0 THEN 0 ELSE m.Cursor - visibleItems
        pd == IF m.Cursor + visibleItems >= n THEN n - 1 ELSE m.Cursor + visibleItems
    IN
    IF MatchesAny(key, <<kb.Global.Quit, kb.Global.QuitAlt>>)
    THEN [TR(m) EXCEPT !.cmds = {TodoBackToMenuMsg}]
    ELSE IF MatchesAny(key, <<kb.Global.MoveUp, kb.Global.MoveUpAlt>>)
    THEN IF m.Cursor > 0
         THEN TR([m EXCEPT !.Cursor = up, !.ListScroll = IF up < m.ListScroll THEN up ELSE m.ListScroll])
         ELSE TR(m)
    ELSE IF MatchesAny(key, <<kb.Global.MoveDown, kb.Global.MoveDownAlt>>)
    THEN IF m.Cursor < n - 1
         THEN TR([m EXCEPT !.Cursor = dn,
                           !.ListScroll = IF dn >= m.ListScroll + visibleItems
                                          THEN dn - visibleItems + 1 ELSE m.ListScroll])
         ELSE TR(m)
    ELSE IF Matches(key, kb.List.Top)
    THEN TR([m EXCEPT !.Cursor = 0, !.ListScroll = 0])
    ELSE IF Matches(key, kb.List.Bottom)
    THEN IF n > 0
         THEN TR([m EXCEPT !.Cursor = n - 1,
                           !.ListScroll = IF n - 1 >= visibleItems THEN n - 1 - visibleItems + 1
                                          ELSE m.ListScroll])
         ELSE TR(m)
    ELSE IF Matches(key, kb.List.PageUp)
    THEN TR([m EXCEPT !.Cursor = pu,
                      !.ListScroll = IF m.ListScroll - visibleItems < 0 THEN 0
                                     ELSE m.ListScroll - visibleItems])
    ELSE IF Matches(key, kb.List.PageDown)
    THEN TR([m EXCEPT !.Cursor = pd,
                      !.ListScroll = IF pd >= m.ListScroll + visibleItems
                                     THEN pd - visibleItems + 1 ELSE m.ListScroll])
    ELSE IF Matches(key, kb.List.Select)
    THEN IF n > 0
         THEN IF m.Cursor + 1 \in DOMAIN m.Todos
              THEN TR(OpenEdit(m, m.Todos[m.Cursor + 1]))
              ELSE [TR(m) EXCEPT !.panic = TRUE]
         ELSE TR(m)
    ELSE IF Matches(key, kb.List.New)
    THEN TR([m EXCEPT !.CurrentView = "CreateView", !.FormBranch = m.Branch, !.FormName = <<>>,
                      !.FormDescription = <<>>, !.FormPrompts = << <<>> >>,
                      !.FormField = FieldBranch, !.FormPromptIdx = 0, !.FormEditingTodo = NoTodo])
    ELSE IF Matches(key, kb.List.Delete)
    THEN IF n > 0
         THEN IF m.Cursor + 1 \in DOMAIN m.Todos
              THEN TR([m EXCEPT !.DeleteTarget = m.Todos[m.Cursor + 1], !.CurrentView = "DeleteConfirmView"])
              ELSE [TR(m) EXCEPT !.panic = TRUE]
         ELSE TR(m)
    ELSE TR(m)

UpdateDetailView(m, msg) ==
    LET key == msg.key IN
    IF MatchesAny(key, <<kb.Global.Quit, kb.Global.QuitAlt, kb.Detail.Back>>)
    THEN TR([m EXCEPT !.CurrentView = "ListView", !.SelectedTodo = NoTodo])
    ELSE IF MatchesAny(key, <<kb.Detail.ScrollUp, kb.Global.MoveUp, kb.Global.MoveUpAlt>>)
    THEN TR([m EXCEPT !.DetailScroll = IF m.DetailScroll > 0 THEN m.DetailScroll - 1 ELSE m.DetailScroll])
    ELSE IF MatchesAny(key, <<kb.Detail.ScrollDown, kb.Global.MoveDown, kb.Global.MoveDownAlt>>)
    THEN TR([m EXCEPT !.DetailScroll = m.DetailScroll + 1])
    ELSE IF Matches(key, kb.List.Top) THEN TR([m EXCEPT !.DetailScroll = 0])
    ELSE IF Matches(key, kb.List.Bottom) THEN TR([m EXCEPT !.DetailScroll = 9999])
    ELSE IF Matches(key, kb.List.PageUp)
    THEN TR([m EXCEPT !.DetailScroll = IF m.DetailScroll - 10 < 0 THEN 0 ELSE m.DetailScroll - 10])
    ELSE IF Matches(key, kb.List.PageDown) THEN TR([m EXCEPT !.DetailScroll = m.DetailScroll + 10])
    ELSE IF Matches(key, kb.Detail.Edit)
    THEN IF m.SelectedTodo # NoTodo THEN TR(OpenEdit(m, m.SelectedTodo)) ELSE TR(m)
    ELSE IF Matches(key, kb.Detail.Delete)
    THEN IF m.SelectedTodo # NoTodo
         THEN TR([m EXCEPT !.DeleteTarget = m.SelectedTodo, !.CurrentView = "DeleteConfirmView"])
         ELSE TR(m)
    ELSE TR(m)

UpdateDeleteConfirmView(m, msg) ==
    IF msg.key \in {"y", "Y"}
    THEN IF m.DeleteTarget # NoTodo
         THEN [TR(m) EXCEPT !.cmds = {[type |-> "CmdDeleteTodo", ID |-> m.DeleteTarget.ID]}]
         ELSE TR(m)
    ELSE IF msg.key \in {"n", "N", "esc"}
    THEN TR([m EXCEPT !.CurrentView = "ListView", !.DeleteTarget = NoTodo])
    ELSE TR(m)

\* m.moveCursorVertical(direction)
moveCursorVertical(m, direction) ==
    LET lines == SplitLines(m.EditorContent)
        Start[i \in 1..(Len(lines) + 1)] == IF i = 1 THEN 0 ELSE Start[i - 1] + Len(lines[i - 1]) + 1
        hit == {i \in DOMAIN lines : Start[i] + Len(lines[i]) >= m.EditorCursorPos}
        cur == IF hit = {} THEN 1 ELSE CHOOSE i \in hit : \A j \in hit : i <= j
        currentCol == IF hit = {} THEN 0 ELSE m.EditorCursorPos - Start[cur]
        t0 == cur + direction
        targetLine == IF t0 < 1 THEN 1 ELSE IF t0 > Len(lines) THEN Len(lines) ELSE t0
    IN Start[targetLine] + Min(currentCol, Len(lines[targetLine]))

UpdatePromptEditor(m, msg) ==
    LET key == msg.key
        c == m.EditorCursorPos
        s == m.EditorContent
    IN
    IF KeyType(msg) = "KeyUp" THEN TR([m EXCEPT !.EditorCursorPos = moveCursorVertical(m, -1)])
    ELSE IF KeyType(msg) = "KeyDown" THEN TR([m EXCEPT !.EditorCursorPos = moveCursorVertical(m, 1)])
    ELSE IF KeyType(msg) = "KeyLeft" THEN TR([m EXCEPT !.EditorCursorPos = IF c > 0 THEN c - 1 ELSE c])
    ELSE IF KeyType(msg) = "KeyRight" THEN TR([m EXCEPT !.EditorCursorPos = IF c < Len(s) THEN c + 1 ELSE c])
    ELSE IF KeyType(msg) = "KeyHome" THEN TR([m EXCEPT !.EditorCursorPos = ToLineStart(s, c)])
    ELSE IF KeyType(msg) = "KeyEnd" THEN TR([m EXCEPT !.EditorCursorPos = ToLineEnd(s, c)])
    ELSE IF Matches(key, kb.Editor.Cancel) THEN TR([m EXCEPT !.CurrentView = m.PreviousView])
    ELSE IF Matches(key, kb.Editor.Save)
    THEN IF m.FormPromptIdx + 1 \in DOMAIN m.FormPrompts
         THEN TR([m EXCEPT !.FormPrompts[m.FormPromptIdx + 1] = s, !.CurrentView = m.PreviousView])
         ELSE [TR(m) EXCEPT !.panic = TRUE]
    ELSE IF Matches(key, kb.Editor.NewLine)
    THEN TR([m EXCEPT !.EditorContent = Insert(s, c, <<"\n">>), !.EditorCursorPos = c + 1])
    ELSE IF key = "backspace"
    THEN IF c > 0 THEN TR([m EXCEPT !.EditorContent = DeleteAt(s, c), !.EditorCursorPos = c - 1]) ELSE TR(m)
    ELSE IF key = "delete"
    THEN IF c < Len(s) THEN TR([m EXCEPT !.EditorContent = DeleteAt(s, c + 1)]) ELSE TR(m)
    ELSE IF Matches(key, kb.Editor.LineStart) THEN TR([m EXCEPT !.EditorCursorPos = ToLineStart(s, c)])
    ELSE IF Matches(key, kb.Editor.LineEnd) THEN TR([m EXCEPT !.EditorCursorPos = ToLineEnd(s, c)])
    ELSE IF key = "space"
    THEN TR([m EXCEPT !.EditorContent = Insert(s, c, <<" ">>), !.EditorCursorPos = c + 1])
    ELSE IF key = "tab"
    THEN TR([m EXCEPT !.EditorContent = Insert(s, c, <<" ", " ", " ", " ">>), !.EditorCursorPos = c + 4])
    ELSE IF IsRune(key)
    THEN TR([m EXCEPT !.EditorContent = Insert(s, c, <<key>>), !.EditorCursorPos = c + 1])
    ELSE TR(m)

handleTextInput(current, msg) ==
    IF msg.key = "backspace"
    THEN IF Len(current) > 0 THEN SubSeq(current, 1, Len(current) - 1) ELSE current
    ELSE IF msg.key = "space" THEN Append(current, " ")
    ELSE IF IsRune(msg.key) THEN Append(current, msg.key)
    ELSE current

handleFormEditMode(m, msg) ==
    IF Matches(msg.key, kb.Form.Cancel) THEN TR([m EXCEPT !.FormEditing = FALSE])
    ELSE IF Matches(msg.key, kb.Editor.NewLine) THEN TR([m EXCEPT !.FormEditing = FALSE])
    ELSE IF m.FormField = FieldBranch THEN TR([m EXCEPT !.FormBranch = handleTextInput(m.FormBranch, msg)])
    ELSE IF m.FormField = FieldName THEN TR([m EXCEPT !.FormName = handleTextInput(m.FormName, msg)])
    ELSE IF m.FormField = FieldDescription
    THEN TR([m EXCEPT !.FormDescription = handleTextInput(m.FormDescription, msg)])
    ELSE TR(m)

\* the prompts of the form that are not blank
RECURSIVE NonBlank(_)
NonBlank(ps) ==
    IF ps = <<>> THEN <<>>
    ELSE (IF TrimSpace(Head(ps)) # <<>> THEN <<Head(ps)>> ELSE <<>>) \o NonBlank(Tail(ps))

saveForm(m) ==
    IF m.FormName = <<>> THEN TR([m EXCEPT !.ErrMsg = "Name is required"])
    ELSE IF m.FormBranch = <<>> THEN TR([m EXCEPT !.ErrMsg = "Branch is required"])
    ELSE IF m.CurrentView = "EditView" /\ m.FormEditingTodo # NoTodo
    THEN LET t == [m.FormEditingTodo EXCEPT !.Branch = m.FormBranch, !.Name = m.FormName,
                                             !.Description = m.FormDescription,
                                             !.Prompts = NonBlank(m.FormPrompts)]
         IN [TR([m EXCEPT !.FormEditingTodo = t]) EXCEPT !.cmds = {[type |-> "CmdUpdateTodo", t |-> t]}]
    ELSE [TR(m) EXCEPT !.cmds = {[type |-> "CmdAddTodo", Branch |-> m.FormBranch, Name |-> m.FormName,
                                   Description |-> m.FormDescription,
                                   Prompts |-> NonBlank(m.FormPrompts)]}]

openImprovePromptTerminal(m) ==
    LET idx == m.FormPromptIdx
        t == RunCommandWithEnv(SetSize(New(instanceCounter), m.Width, m.Height),
                               "claude -p", Len(sinks) + 1)
    IN [TR([m EXCEPT !.Improving = TRUE, !.Terminal = t,
                     !.TerminalCallback = [idx |-> idx, sid |-> t.ID],
                     !.PreviousView = m.CurrentView, !.CurrentView = "TerminalView"])
        EXCEPT !.cmds = {tick(t)}, !.spawn = TRUE]

\* the variant that leaves FormPromptIdx as it is when a prompt is deleted
UpdateFormView_DeleteKeepsIdx(m, msg) ==
    LET key == msg.key
        np == Len(m.FormPrompts)
    IN
    IF m.FormEditing THEN handleFormEditMode(m, msg)
    ELSE IF Matches(key, kb.Form.Cancel) THEN TR([m EXCEPT !.CurrentView = "ListView"])
    ELSE IF Matches(key, kb.Form.Submit) THEN saveForm(m)
    ELSE IF MatchesAny(key, <<kb.Global.MoveUp, kb.Global.MoveUpAlt>>) \/ KeyType(msg) = "KeyUp"
    THEN IF m.FormField = FieldPrompts /\ m.FormPromptIdx > 0
         THEN TR([m EXCEPT !.FormPromptIdx = m.FormPromptIdx - 1])
         ELSE IF m.FormField > FieldBranch
         THEN TR([m EXCEPT !.FormField = m.FormField - 1,
                           !.FormPromptIdx = IF m.FormField - 1 = FieldPrompts THEN np - 1
                                             ELSE m.FormPromptIdx])
         ELSE TR(m)
    ELSE IF MatchesAny(key, <<kb.Global.MoveDown, kb.Global.MoveDownAlt>>) \/ KeyType(msg) = "KeyDown"
    THEN IF m.FormField = FieldPrompts /\ m.FormPromptIdx < np - 1
         THEN TR([m EXCEPT !.FormPromptIdx = m.FormPromptIdx + 1])
         ELSE IF m.FormField < FieldPrompts
         THEN TR([m EXCEPT !.FormField = m.FormField + 1,
                           !.FormPromptIdx = IF m.FormField + 1 = FieldPrompts THEN 0
                                             ELSE m.FormPromptIdx])
         ELSE TR(m)
    ELSE IF Matches(key, kb.Form.NextField)
    THEN LET f == IF m.FormField = FieldPrompts THEN FieldBranch ELSE m.FormField + 1
         IN TR([m EXCEPT !.FormField = f,
                         !.FormPromptIdx = IF f = FieldPrompts THEN 0 ELSE m.FormPromptIdx])
    ELSE IF Matches(key, kb.Form.PrevField)
    THEN IF m.FormField = FieldBranch
         THEN TR([m EXCEPT !.FormField = FieldPrompts, !.FormPromptIdx = np - 1])
         ELSE TR([m EXCEPT !.FormField = m.FormField - 1])
    ELSE IF MatchesAny(key, <<kb.Form.EditPrompt, kb.Editor.NewLine>>)
    THEN IF m.FormField = FieldPrompts
         THEN IF m.FormPromptIdx + 1 \in DOMAIN m.FormPrompts
              THEN TR([m EXCEPT !.EditorContent = m.FormPrompts[m.FormPromptIdx + 1],
                                !.EditorCursorPos = Len(m.FormPrompts[m.FormPromptIdx + 1]),
                                !.PreviousView = m.CurrentView, !.CurrentView = "PromptEditorView"])
              ELSE [TR(m) EXCEPT !.panic = TRUE]
         ELSE TR([m EXCEPT !.FormEditing = TRUE])
    ELSE IF m.FormField = FieldPrompts /\ Matches(key, kb.Form.AddPrompt)
    THEN TR([m EXCEPT !.FormPrompts = Append(m.FormPrompts, <<>>), !.FormPromptIdx = np])
    ELSE IF m.FormField = FieldPrompts /\ Matches(key, kb.Form.DeletePrompt)
    THEN IF np > 1
         THEN IF m.FormPromptIdx + 1 \in DOMAIN m.FormPrompts
              THEN TR([m EXCEPT !.FormPrompts = DeleteAt(m.FormPrompts, m.FormPromptIdx + 1),
                                !.FormPromptIdx = m.FormPromptIdx])
              ELSE [TR(m) EXCEPT !.panic = TRUE]
         ELSE TR(m)
    ELSE IF m.FormField = FieldPrompts /\ Matches(key, kb.Form.ImprovePrompt)
    THEN IF m.FormPromptIdx + 1 \notin DOMAIN m.FormPrompts
         THEN IF m.Improving THEN TR(m) ELSE [TR(m) EXCEPT !.panic = TRUE]
         ELSE IF ~m.Improving /\ TrimSpace(m.FormPrompts[m.FormPromptIdx + 1]) # <<>>
         THEN openImprovePromptTerminal(m)
         ELSE TR(m)
    ELSE TR(m)

UpdateFormView(m, msg) ==
    LET key == msg.key
        np == Len(m.FormPrompts)
    IN
    IF m.FormEditing THEN handleFormEditMode(m, msg)
    ELSE IF Matches(key, kb.Form.Cancel) THEN TR([m EXCEPT !.CurrentView = "ListView"])
    ELSE IF Matches(key, kb.Form.Submit) THEN saveForm(m)
    ELSE IF MatchesAny(key, <<kb.Global.MoveUp, kb.Global.MoveUpAlt>>) \/ KeyType(msg) = "KeyUp"
    THEN IF m.FormField = FieldPrompts /\ m.FormPromptIdx > 0
         THEN TR([m EXCEPT !.FormPromptIdx = m.FormPromptIdx - 1])
         ELSE IF m.FormField > FieldBranch
         THEN TR([m EXCEPT !.FormField = m.FormField - 1,
                           !.FormPromptIdx = IF m.FormField - 1 = FieldPrompts THEN np - 1
                                             ELSE m.FormPromptIdx])
         ELSE TR(m)
    ELSE IF MatchesAny(key, <<kb.Global.MoveDown, kb.Global.MoveDownAlt>>) \/ KeyType(msg) = "KeyDown"
    THEN IF m.FormField = FieldPrompts /\ m.FormPromptIdx < np - 1
         THEN TR([m EXCEPT !.FormPromptIdx = m.FormPromptIdx + 1])
         ELSE IF m.FormField < FieldPrompts
         THEN TR([m EXCEPT !.FormField = m.FormField + 1,
                           !.FormPromptIdx = IF m.FormField + 1 = FieldPrompts THEN 0
                                             ELSE m.FormPromptIdx])
         ELSE TR(m)
    ELSE IF Matches(key, kb.Form.NextField)
    THEN LET f == IF m.FormField = FieldPrompts THEN FieldBranch ELSE m.FormField + 1
         IN TR([m EXCEPT !.FormField = f,
                         !.FormPromptIdx = IF f = FieldPrompts THEN 0 ELSE m.FormPromptIdx])
    ELSE IF Matches(key, kb.Form.PrevField)
    THEN IF m.FormField = FieldBranch
         THEN TR([m EXCEPT !.FormField = FieldPrompts, !.FormPromptIdx = np - 1])
         ELSE TR([m EXCEPT !.FormField = m.FormField - 1])
    ELSE IF MatchesAny(key, <<kb.Form.EditPrompt, kb.Editor.NewLine>>)
    THEN IF m.FormField = FieldPrompts
         THEN IF m.FormPromptIdx + 1 \in DOMAIN m.FormPrompts
              THEN TR([m EXCEPT !.EditorContent = m.FormPrompts[m.FormPromptIdx + 1],
                                !.EditorCursorPos = Len(m.FormPrompts[m.FormPromptIdx + 1]),
                                !.PreviousView = m.CurrentView, !.CurrentView = "PromptEditorView"])
              ELSE [TR(m) EXCEPT !.panic = TRUE]
         ELSE TR([m EXCEPT !.FormEditing = TRUE])
    ELSE IF m.FormField = FieldPrompts /\ Matches(key, kb.Form.AddPrompt)
    THEN TR([m EXCEPT !.FormPrompts = Append(m.FormPrompts, <<>>), !.FormPromptIdx = np])
    ELSE IF m.FormField = FieldPrompts /\ Matches(key, kb.Form.DeletePrompt)
    THEN IF np > 1
         THEN IF m.FormPromptIdx + 1 \in DOMAIN m.FormPrompts
              THEN TR([m EXCEPT !.FormPrompts = DeleteAt(m.FormPrompts, m.FormPromptIdx + 1),
                                !.FormPromptIdx = IF m.FormPromptIdx >= np - 1 THEN np - 2
                                                  ELSE m.FormPromptIdx])
              ELSE [TR(m) EXCEPT !.panic = TRUE]
         ELSE TR(m)
    ELSE IF m.FormField = FieldPrompts /\ Matches(key, kb.Form.ImprovePrompt)
    THEN IF m.FormPromptIdx + 1 \notin DOMAIN m.FormPrompts
         THEN IF m.Improving THEN TR(m) ELSE [TR(m) EXCEPT !.panic = TRUE]
         ELSE IF ~m.Improving /\ TrimSpace(m.FormPrompts[m.FormPromptIdx + 1]) # <<>>
         THEN openImprovePromptTerminal(m)
         ELSE TR(m)
    ELSE TR(m)

\* the closure openImprovePromptTerminal installs, applied to the model
ImproveCallback(cb, m, output) ==
    LET improved == TrimSpace(output) IN
    [m EXCEPT !.Improving = FALSE,
              !.FormPrompts = IF improved # <<>> /\ cb.idx >= 0 /\ cb.idx < Len(m.FormPrompts)
                              THEN [m.FormPrompts EXCEPT ![cb.idx + 1] = improved]
                              ELSE m.FormPrompts]

\* variant: the modal stays open with its callback after the close key
UpdateTerminalView_KeepOpen(m, msg, newLines) ==
    IF ShouldClose(m.Terminal, msg)
    THEN LET output == GetRawOutput(m.Terminal)
         IN IF m.TerminalCallback # NoCallback
            THEN [TR(ImproveCallback(m.TerminalCallback, m, output))
                  EXCEPT !.calls = <<[sid |-> m.TerminalCallback.sid, output |-> output]>>]
            ELSE TR(m)
    ELSE LET r == TerminalUpdate(m.Terminal, msg, newLines)
         IN [TR([m EXCEPT !.Terminal = r.m]) EXCEPT !.cmds = r.cmd]

UpdateTerminalView(m, msg, newLines) ==
    IF ShouldClose(m.Terminal, msg)
    THEN LET output == GetRawOutput(m.Terminal)
             m1 == IF m.TerminalCallback # NoCallback
                   THEN ImproveCallback(m.TerminalCallback, m, output) ELSE m
         IN [TR([m1 EXCEPT !.CurrentView = m.PreviousView, !.TerminalCallback = NoCallback])
             EXCEPT !.calls = IF m.TerminalCallback # NoCallback
                              THEN <<[sid |-> m.TerminalCallback.sid, output |-> output]>> ELSE <<>>]
    ELSE LET r == TerminalUpdate(m.Terminal, msg, newLines)
         IN [TR([m EXCEPT !.Terminal = r.m]) EXCEPT !.cmds = r.cmd]

handleKeyMsg(m, msg, newLines) ==
    CASE m.CurrentView = "ListView" -> UpdateListView(m, msg)
      [] m.CurrentView = "DetailView" -> UpdateDetailView(m, msg)
      [] m.CurrentView \in {"CreateView", "EditView"} -> UpdateFormView(m, msg)
      [] m.CurrentView = "DeleteConfirmView" -> UpdateDeleteConfirmView(m, msg)
      [] m.CurrentView = "PromptEditorView" -> UpdatePromptEditor(m, msg)
      [] m.CurrentView = "TerminalView" -> UpdateTerminalView(m, msg, newLines)
      [] OTHER -> TR(m)

\* an Update that forwards a TickMsg to the terminal model in every view
TodoUpdate_TickInAnyView(m, msg, newLines) ==
    CASE msg.type = "WindowSize" ->
            TR([m EXCEPT !.Width = msg.Width, !.Height = msg.Height,
                         !.Terminal = SetSize(m.Terminal, msg.Width, msg.Height)])
      [] msg.type = "TodosLoaded" -> TR([m EXCEPT !.Todos = msg.Todos, !.Loading = FALSE])
      [] msg.type = "TodoError" -> TR([m EXCEPT !.ErrMsg = msg.Err, !.Loading = FALSE])
      [] msg.type = "TodoSaved" ->
            [TR([m EXCEPT !.CurrentView = "ListView", !.ErrMsg = ""]) EXCEPT !.cmds = {LoadTodosCmd}]
      [] msg.type = "TodoDeleted" ->
            [TR([m EXCEPT !.CurrentView = "ListView", !.DeleteTarget = NoTodo])
             EXCEPT !.cmds = {LoadTodosCmd}]
      [] msg.type = "Tick" ->
            LET r == TerminalUpdate(m.Terminal, msg, newLines)
            IN [TR([m EXCEPT !.Terminal = r.m]) EXCEPT !.cmds = r.cmd]
      [] msg.type = "Key" -> handleKeyMsg([m EXCEPT !.ErrMsg = ""], msg, newLines)
      [] OTHER -> TR(m)

TodoUpdate(m, msg, newLines) ==
    CASE msg.type = "WindowSize" ->
            TR([m EXCEPT !.Width = msg.Width, !.Height = msg.Height,
                         !.Terminal = SetSize(m.Terminal, msg.Width, msg.Height)])
      [] msg.type = "TodosLoaded" -> TR([m EXCEPT !.Todos = msg.Todos, !.Loading = FALSE])
      [] msg.type = "TodoError" -> TR([m EXCEPT !.ErrMsg = msg.Err, !.Loading = FALSE])
      [] msg.type = "TodoSaved" ->
            [TR([m EXCEPT !.CurrentView = "ListView", !.ErrMsg = ""]) EXCEPT !.cmds = {LoadTodosCmd}]
      [] msg.type = "TodoDeleted" ->
            [TR([m EXCEPT !.CurrentView = "ListView", !.DeleteTarget = NoTodo])
             EXCEPT !.cmds = {LoadTodosCmd}]
      [] msg.type = "Tick" ->
            IF m.CurrentView = "TerminalView"
            THEN LET r == TerminalUpdate(m.Terminal, msg, newLines)
                 IN [TR([m EXCEPT !.Terminal = r.m]) EXCEPT !.cmds = r.cmd]
            ELSE TR(m)
      [] msg.type = "Key" -> handleKeyMsg([m EXCEPT !.ErrMsg = ""], msg, newLines)
      [] OTHER -> TR(m)

----------------------------------------------------------------------------
(* commit.Model (internal/ui/commit) *)

CheckChangesCmd    == [type |-> "CmdCheckChanges"]
CheckDoneMsg(h, e) == [type |-> "CheckDone", HasChanges |-> h, Err |-> e]
CommitBackToMenuMsg == [type |-> "CommitBackToMenu"]

GitErr == "git: exit status 128"   \* error of `git status --porcelain`

SubjectLimit == 72

NewCommitModel ==
    [State |-> "StateChecking", ErrMsg |-> "", Subject |-> <<>>, Body |-> <<>>,
     EditingField |-> 0, CursorPos |-> 0, BodyScrollPos |-> 0,
     Terminal |-> ZeroTerminal, Width |-> 0, Height |-> 0]

\* Go nil (*commit.Model)
NilCommit == [NewCommitModel EXCEPT !.State = "nil"]

CommitPrefixes == {"feat:", "fix:", "refactor:", "docs:", "style:", "test:", "chore:"}

\* the token of a markdown code block delimiter (three backquotes)
Fence == "fence"

\* strings.HasPrefix(strings.TrimSpace(line), Fence)
IsFence(line) == TrimSpace(line) # <<>> /\ Head(TrimSpace(line)) = Fence

\* the line starts with a commit type
HasCommitType(line) == TrimSpace(line) # <<>> /\ Head(TrimSpace(line)) \in CommitPrefixes

\* strings.Join(lines, "\n") for lines that are token sequences
RECURSIVE JoinLines(_)
JoinLines(lines) ==
    IF lines = <<>> THEN <<>>
    ELSE IF Len(lines) = 1 THEN Head(lines)
    ELSE Head(lines) \o <<"\n">> \o JoinLines(Tail(lines))

\* strings.SplitN(s, "\n", 2), trimmed into subject and body
SubjectAndBody(s) ==
    IF \A i \in DOMAIN s : s[i] # "\n" THEN [subject |-> TrimSpace(s), body |-> <<>>]
    ELSE LET i == CHOOSE j \in DOMAIN s : s[j] = "\n" /\ \A k \in 1..(j - 1) : s[k] # "\n"
         IN [subject |-> TrimSpace(SubSeq(s, 1, i - 1)), body |-> TrimSpace(SubSeq(s, i + 1, Len(s)))]

stripCodeBlocks(s) ==
    LET NotFence(l) == ~IsFence(l)
    IN TrimSpace(JoinLines(SelectSeq(SplitLines(s), NotFence)))

parseCommitMessage(output) ==
    LET lines == SplitLines(output)
        hits == {i \in DOMAIN lines : ~IsFence(lines[i]) /\ HasCommitType(lines[i])}
        startIdx == CHOOSE i \in hits : \A j \in hits : i <= j
        NotFence(l) == ~IsFence(l)
    IN IF hits = {} THEN SubjectAndBody(stripCodeBlocks(output))
       ELSE SubjectAndBody(TrimSpace(JoinLines(SelectSeq(SubSeq(lines, startIdx, Len(lines)), NotFence))))

startGenerating(m) ==
    LET t == RunCommandWithEnv(SetSize(New(instanceCounter), m.Width, m.Height),
                               "claude -p /generate-commit-msg", Len(sinks) + 1)
    IN [TR([m EXCEPT !.State = "StateGenerating", !.Terminal = t])
        EXCEPT !.cmds = {tick(t)}, !.spawn = TRUE]

handleGenerateDone(m) ==
    IF m.Terminal.Err # nil
    THEN TR([m EXCEPT !.State = "StateError",
                      !.ErrMsg = "Failed to generate commit message: " \o m.Terminal.Err])
    ELSE LET p == parseCommitMessage(TrimSpace(GetRawOutput(m.Terminal)))
         IN TR([m EXCEPT !.Subject = p.subject, !.Body = p.body, !.State = "StateEditing",
                         !.EditingField = 0, !.CursorPos = Len(p.subject)])

handleCommitDone(m) ==
    IF m.Terminal.Err # nil
    THEN TR([m EXCEPT !.State = "StateError", !.ErrMsg = "Commit failed: " \o m.Terminal.Err])
    ELSE TR([m EXCEPT !.State = "StateDone"])

\* returns the edited text and the cursor
handleTextEdit(text, cursor, msg) ==
    LET key == msg.key IN
    IF key = "backspace"
    THEN IF cursor > 0 THEN [text |-> DeleteAt(text, cursor), cursor |-> cursor - 1]
         ELSE [text |-> text, cursor |-> cursor]
    ELSE IF key = "delete"
    THEN [text |-> IF cursor < Len(text) THEN DeleteAt(text, cursor + 1) ELSE text, cursor |-> cursor]
    ELSE IF key = "left" THEN [text |-> text, cursor |-> IF cursor > 0 THEN cursor - 1 ELSE cursor]
    ELSE IF key = "right"
    THEN [text |-> text, cursor |-> IF cursor < Len(text) THEN cursor + 1 ELSE cursor]
    ELSE IF key \in {"home", "ctrl+a"} THEN [text |-> text, cursor |-> ToLineStart(text, cursor)]
    ELSE IF key \in {"end", "ctrl+e"} THEN [text |-> text, cursor |-> ToLineEnd(text, cursor)]
    ELSE IF key = "enter" THEN [text |-> Insert(text, cursor, <<"\n">>), cursor |-> cursor + 1]
    ELSE IF key = "space" THEN [text |-> Insert(text, cursor, <<" ">>), cursor |-> cursor + 1]
    ELSE IF IsRune(key) THEN [text |-> Insert(text, cursor, <<key>>), cursor |-> cursor + 1]
    ELSE [text |-> text, cursor |-> cursor]

doCommit(m) ==
    LET t == RunCommandWithEnv(SetSize(New(instanceCounter), m.Width, m.Height),
                               "bash -c git commit", Len(sinks) + 1)
    IN [TR([m EXCEPT !.State = "StateCommitting", !.Terminal = t])
        EXCEPT !.cmds = {tick(t)}, !.spawn = TRUE]

\* the variant that submits without looking at the subject
handleEditKey_CommitsEmpty(m, msg) ==
    LET key == msg.key
        es == handleTextEdit(m.Subject, m.CursorPos, msg)
        eb == handleTextEdit(m.Body, m.CursorPos, msg)
    IN
    IF Matches(key, kb.Form.Submit)
    THEN doCommit(m)
    ELSE IF Matches(key, kb.Form.NextField) \/ key = "down"
    THEN IF m.EditingField = 0 THEN TR([m EXCEPT !.EditingField = 1, !.CursorPos = Len(m.Body)])
         ELSE TR(m)
    ELSE IF Matches(key, kb.Form.PrevField) \/ key = "up"
    THEN IF m.EditingField = 1 THEN TR([m EXCEPT !.EditingField = 0, !.CursorPos = Len(m.Subject)])
         ELSE TR(m)
    ELSE IF m.EditingField = 0
    THEN IF ByteLen(es.text) > SubjectLimit
         THEN TR([m EXCEPT !.Subject = Truncate(es.text, SubjectLimit),
                           !.CursorPos = IF ByteLen(SubSeq(es.text, 1, es.cursor)) > SubjectLimit
                                         THEN Len(Truncate(es.text, SubjectLimit))
                                         ELSE es.cursor])
         ELSE TR([m EXCEPT !.Subject = es.text, !.CursorPos = es.cursor])
    ELSE TR([m EXCEPT !.Body = eb.text, !.CursorPos = eb.cursor])

handleEditKey(m, msg) ==
    LET key == msg.key
        es == handleTextEdit(m.Subject, m.CursorPos, msg)
        eb == handleTextEdit(m.Body, m.CursorPos, msg)
    IN
    IF Matches(key, kb.Form.Submit)
    THEN IF m.Subject = <<>> THEN TR([m EXCEPT !.ErrMsg = "Subject is required"]) ELSE doCommit(m)
    ELSE IF Matches(key, kb.Form.NextField) \/ key = "down"
    THEN IF m.EditingField = 0 THEN TR([m EXCEPT !.EditingField = 1, !.CursorPos = Len(m.Body)])
         ELSE TR(m)
    ELSE IF Matches(key, kb.Form.PrevField) \/ key = "up"
    THEN IF m.EditingField = 1 THEN TR([m EXCEPT !.EditingField = 0, !.CursorPos = Len(m.Subject)])
         ELSE TR(m)
    ELSE IF m.EditingField = 0
    THEN IF ByteLen(es.text) > SubjectLimit
         THEN TR([m EXCEPT !.Subject = Truncate(es.text, SubjectLimit),
                           !.CursorPos = IF ByteLen(SubSeq(es.text, 1, es.cursor)) > SubjectLimit
                                         THEN Len(Truncate(es.text, SubjectLimit))
                                         ELSE es.cursor])
         ELSE TR([m EXCEPT !.Subject = es.text, !.CursorPos = es.cursor])
    ELSE TR([m EXCEPT !.Body = eb.text, !.CursorPos = eb.cursor])

CommitHandleKey(m, msg) ==
    IF MatchesAny(msg.key, <<kb.Global.Quit, kb.Global.QuitAlt>>)
    THEN [TR(m) EXCEPT !.cmds = {CommitBackToMenuMsg}]
    ELSE IF m.State \in {"StateNoChanges", "StateDone", "StateError"}
    THEN IF msg.key = "enter" \/ msg.key = " "
         THEN [TR(m) EXCEPT !.cmds = {CommitBackToMenuMsg}] ELSE TR(m)
    ELSE IF m.State \in {"StateGenerating", "StateCommitting"}
    THEN LET r == TerminalUpdate(m.Terminal, msg, <<>>)
         IN [TR([m EXCEPT !.Terminal = r.m]) EXCEPT !.cmds = r.cmd]
    ELSE IF m.State = "StateEditing" THEN handleEditKey(m, msg)
    ELSE TR(m)

\* the variant that leaves the state to a later tick when the command has finished
CommitUpdate_DoneOnNextTick(m, msg, newLines) ==
    CASE msg.type = "WindowSize" ->
            TR([m EXCEPT !.Width = msg.Width, !.Height = msg.Height,
                         !.Terminal = SetSize(m.Terminal, msg.Width, msg.Height)])
      [] msg.type = "CheckDone" ->
            IF msg.Err # nil THEN TR([m EXCEPT !.State = "StateError", !.ErrMsg = msg.Err])
            ELSE IF ~msg.HasChanges THEN TR([m EXCEPT !.State = "StateNoChanges"])
            ELSE startGenerating(m)
      [] msg.type = "Tick" ->
            IF m.State \in {"StateGenerating", "StateCommitting"}
            THEN LET r == TerminalUpdate(m.Terminal, msg, newLines)
                     m1 == [m EXCEPT !.Terminal = r.m]
                 IN IF ~m.Terminal.Running
                    THEN IF m1.State = "StateGenerating" THEN handleGenerateDone(m1)
                         ELSE handleCommitDone(m1)
                    ELSE [TR(m1) EXCEPT !.cmds = IF r.cmd = {} THEN {tick(m1.Terminal)} ELSE r.cmd]
            ELSE TR(m)
      [] msg.type = "Key" -> CommitHandleKey(m, msg)
      [] OTHER -> TR(m)

CommitUpdate(m, msg, newLines) ==
    CASE msg.type = "WindowSize" ->
            TR([m EXCEPT !.Width = msg.Width, !.Height = msg.Height,
                         !.Terminal = SetSize(m.Terminal, msg.Width, msg.Height)])
      [] msg.type = "CheckDone" ->
            IF msg.Err # nil THEN TR([m EXCEPT !.State = "StateError", !.ErrMsg = msg.Err])
            ELSE IF ~msg.HasChanges THEN TR([m EXCEPT !.State = "StateNoChanges"])
            ELSE startGenerating(m)
      [] msg.type = "Tick" ->
            IF m.State \in {"StateGenerating", "StateCommitting"}
            THEN LET r == TerminalUpdate(m.Terminal, msg, newLines)
                     m1 == [m EXCEPT !.Terminal = r.m]
                 IN IF ~m1.Terminal.Running
                    THEN IF m1.State = "StateGenerating" THEN handleGenerateDone(m1)
                         ELSE handleCommitDone(m1)
                    ELSE [TR(m1) EXCEPT !.cmds = r.cmd]
            ELSE TR(m)
      [] msg.type = "Key" -> CommitHandleKey(m, msg)
      [] OTHER -> TR(m)

----------------------------------------------------------------------------
(* app.Model *)

\* Go nil (*todo.Model)
NilTodo == [NewTodoModel(<<>>) EXCEPT !.CurrentView = "nil"]

\* app.New; ri: the program runs inside a git repository
NewApp(ri, startView) ==
    [repoInfo |-> ri, cursor |-> 0, width |-> 0, height |-> 0,
     currentView |-> startView, terminal |-> ZeroTerminal,
     todoModel |-> IF ri THEN NewTodoModel(<<"main">>) ELSE NilTodo,
     commitModel |-> NilCommit]

NumChoices == 8

\* result of an Update: the new model, the messages and commands its tea.Cmd
\* produces, and whether a terminal session (New + RunCommand) was started
Result(a, cmds, spawn) == [app |-> a, cmds |-> cmds, spawn |-> spawn, calls |-> <<>>, panic |-> FALSE]

\* the result of a hosted model's Update, stored back into the app model
Hosted(a, r) == [app |-> a, cmds |-> r.cmds, spawn |-> r.spawn, calls |-> r.calls, panic |-> r.panic]

handleMenuSelection(m) ==
    CASE m.cursor = 3 /\ m.repoInfo /\ m.todoModel # NilTodo ->
            Result([m EXCEPT !.currentView = "TodosView",
                             !.todoModel.Width = m.width, !.todoModel.Height = m.height],
                   {LoadTodosCmd}, FALSE)
      [] m.cursor = 4 /\ m.repoInfo ->
            Result([m EXCEPT !.commitModel = [NewCommitModel EXCEPT !.Width = m.width, !.Height = m.height],
                             !.currentView = "CommitView"],
                   {CheckChangesCmd}, FALSE)
      [] m.cursor = 5 /\ m.repoInfo ->
            LET t == RunCommandWithEnv(SetSize(New(instanceCounter), m.width, m.height),
                                       "bash -c loop", Len(sinks) + 1)
            IN Result([m EXCEPT !.terminal = t, !.currentView = "TerminalTestView"], {tick(t)}, TRUE)
      [] m.cursor = 7 -> Result(m, {[type |-> "Quit"]}, FALSE)
      [] OTHER -> Result(m, {}, FALSE)

AppUpdate(m, msg, newLines) ==
    IF m.currentView = "TerminalTestView" THEN
        CASE msg.type = "WindowSize" ->
                Result([m EXCEPT !.width = msg.Width, !.height = msg.Height,
                                 !.terminal = SetSize(m.terminal, msg.Width, msg.Height)], {}, FALSE)
          [] msg.type = "Tick" ->
                LET r == TerminalUpdate(m.terminal, msg, newLines)
                IN Result([m EXCEPT !.terminal = r.m], r.cmd, FALSE)
          [] msg.type = "Key" ->
                IF ShouldClose(m.terminal, msg)
                THEN Result([m EXCEPT !.currentView = "MainMenuView"], {}, FALSE)
                ELSE LET r == TerminalUpdate(m.terminal, msg, newLines)
                     IN Result([m EXCEPT !.terminal = r.m], r.cmd, FALSE)
          [] OTHER -> Result(m, {}, FALSE)
    ELSE IF m.currentView = "TodosView" THEN
        IF msg.type = "TodoBackToMenu" THEN Result([m EXCEPT !.currentView = "MainMenuView"], {}, FALSE)
        ELSE IF m.todoModel = NilTodo THEN [Result(m, {}, FALSE) EXCEPT !.panic = TRUE]
        ELSE LET m1 == IF msg.type = "WindowSize"
                       THEN [m EXCEPT !.width = msg.Width, !.height = msg.Height] ELSE m
                 r == TodoUpdate(m.todoModel, msg, newLines)
             IN Hosted([m1 EXCEPT !.todoModel = r.m], r)
    ELSE IF m.currentView = "CommitView" /\ m.commitModel # NilCommit THEN
        IF msg.type = "CommitBackToMenu" THEN Result([m EXCEPT !.currentView = "MainMenuView"], {}, FALSE)
        ELSE LET m1 == IF msg.type = "WindowSize"
                       THEN [m EXCEPT !.width = msg.Width, !.height = msg.Height] ELSE m
                 r == CommitUpdate(m.commitModel, msg, newLines)
             IN Hosted([m1 EXCEPT !.commitModel = r.m], r)
    ELSE
        CASE msg.type = "WindowSize" ->
                Result([m EXCEPT !.width = msg.Width, !.height = msg.Height], {}, FALSE)
          [] msg.type = "Key" ->
                LET key == msg.key IN
                IF key = "ctrl+c" \/ MatchesAny(key, <<kb.Global.Quit, kb.Global.QuitAlt>>)
                THEN Result(m, {[type |-> "Quit"]}, FALSE)
                ELSE IF MatchesAny(key, <<kb.Global.MoveUp, kb.Global.MoveUpAlt>>)
                THEN Result([m EXCEPT !.cursor = IF m.cursor > 0 THEN m.cursor - 1 ELSE m.cursor], {}, FALSE)
                ELSE IF MatchesAny(key, <<kb.Global.MoveDown, kb.Global.MoveDownAlt>>)
                THEN Result([m EXCEPT !.cursor = IF m.cursor < NumChoices - 1 THEN m.cursor + 1 ELSE m.cursor], {}, FALSE)
                ELSE IF MatchesAny(key, <<kb.List.Select, " ">>)
                THEN handleMenuSelection(m)
                ELSE Result(m, {}, FALSE)
          [] OTHER -> Result(m, {}, FALSE)

----------------------------------------------------------------------------
(* The Bubble Tea event loop *)

Idle == [pc |-> "idle", ID |-> 0, newLines |-> <<>>]

\* key strings the terminal emulator can send: scrolling and selection keys, closing keys
ScrollKeys == {"k", "j", "up", "down", "enter", "g", "G", "ctrl+u", "ctrl+d"}
CloseKeys  == {"esc", "q"}
Keys == ScrollKeys \cup CloseKeys

\* the terminal.Model that the current view forwards a TickMsg to
TickTarget ==
    IF app.currentView = "TerminalTestView" THEN app.terminal
    ELSE IF app.currentView = "TodosView" /\ app.todoModel.CurrentView = "TerminalView"
    THEN app.todoModel.Terminal
    ELSE IF app.currentView = "CommitView"
            /\ app.commitModel.State \in {"StateGenerating", "StateCommitting"}
    THEN app.commitModel.Terminal
    ELSE ZeroTerminal

\* the commands in flight and the messages they sent that are not handled yet,
\* the ticks of the timers aside
Pending(q) ==
    LET S == {c \in BagToSet(q) : c.type # "Tick"}
        Sum[T \in SUBSET S] == IF T = {} THEN 0
                                ELSE LET c == CHOOSE x \in T : TRUE IN CopiesIn(c, q) + Sum[T \ {c}]
    IN Sum[S]

\* state changes of one Update call and of the command it returns; q is the
\* message queue without the message that is being handled
Apply(r, q) ==
    IF r.panic
    THEN /\ ui' = [Idle EXCEPT !.pc = "panic"]
         /\ msgs' = q
         /\ UNCHANGED <<instanceCounter, sinks, procs, app, store, cbLog, conf>>
    ELSE /\ r.spawn => instanceCounter < MaxSessions
         /\ Pending(q) + Cardinality({c \in r.cmds : c.type # "Tick"}) <= MaxPending
         /\ app' = r.app
         /\ msgs' = q (+) SetToBag(r.cmds)
         /\ cbLog' = cbLog \o r.calls
         /\ ui' = Idle
         /\ IF r.spawn
            THEN /\ instanceCounter' = instanceCounter + 1
                 /\ sinks' = Append(sinks, NewSharedOutput)
                 /\ procs' = Append(procs, NewProc)
            ELSE UNCHANGED <<instanceCounter, sinks, procs>>
         /\ UNCHANGED <<store, conf>>

\* a todo with one prompt, saved by an earlier run of the program
SavedTodo == NewTodo(1, <<"main">>, <<"t">>, <<>>, << <<"p">> >>)

Init ==
    /\ instanceCounter = 0
    /\ sinks = <<>>
    /\ procs = <<>>
    /\ msgs = EmptyBag
    /\ ui = Idle
    /\ app \in {NewApp(ri, "MainMenuView") : ri \in BOOLEAN}
    /\ store = <<SavedTodo>>
    /\ cbLog = <<>>
    /\ conf = NoConf

\* tea.WindowSizeMsg
Resize(w, h) ==
    /\ ui.pc = "idle"
    /\ Apply(AppUpdate(app, WindowSizeMsg(w, h), <<>>), msgs)

\* tea.KeyMsg
Key(k) ==
    /\ ui.pc = "idle"
    /\ Apply(AppUpdate(app, KeyMsg(k), <<>>), msgs)

\* a TickMsg is taken from the queue; handleTick, if reached, calls output.getLines()
TickBegin(id) ==
    /\ ui.pc = "idle"
    /\ BagIn(TickMsg(id), msgs)
    /\ msgs' = msgs (-) SetToBag({TickMsg(id)})
    /\ ui' = [pc |-> "tick", ID |-> id,
               newLines |-> IF TickTarget.ID = id /\ TickTarget.output # NoSink
                            THEN getLines(sinks[TickTarget.output]) ELSE <<>>]
    /\ UNCHANGED <<instanceCounter, sinks, procs, app, store, cbLog, conf>>

\* the rest of the Update call for that TickMsg, from output.isDone() on
TickEnd ==
    /\ ui.pc = "tick"
    /\ Apply(AppUpdate(app, TickMsg(ui.ID), ui.newLines), msgs)

\* a message sent by a command is handled by Update
Deliver(msg) ==
    /\ ui.pc = "idle"
    /\ BagIn(msg, msgs)
    /\ msg.type \in {"TodosLoaded", "TodoError", "TodoSaved", "TodoDeleted", "TodoBackToMenu",
                     "CheckDone", "CommitBackToMenu"}
    /\ Apply(AppUpdate(app, msg, <<>>), msgs (-) SetToBag({msg}))

IOErr == "write: no space left on device"   \* error of a store file operation

\* what a command's goroutine can do: the new content of the store and the message it sends
Outcomes(c) ==
    CASE c.type = "CmdLoadTodos" ->
            {[store |-> store, msg |-> TodosLoadedMsg(store)],
             [store |-> store, msg |-> TodoErrorMsg(IOErr)]}
      [] c.type = "CmdAddTodo" ->
            LET ids == {store[i].ID : i \in DOMAIN store}
                id == IF ids = {} THEN 1 ELSE 1 + CHOOSE x \in ids : \A y \in ids : y <= x
                r == AddTodo(store, NewTodo(id, c.Branch, c.Name, c.Description, c.Prompts))
            IN {[store |-> r.list, msg |-> TodoSavedMsg], [store |-> store, msg |-> TodoErrorMsg(IOErr)]}
      [] c.type = "CmdUpdateTodo" ->
            LET r == UpdateTodo(store, c.t)
            IN {[store |-> r.list, msg |-> IF r.err = nil THEN TodoSavedMsg ELSE TodoErrorMsg(r.err)],
                [store |-> store, msg |-> TodoErrorMsg(IOErr)]}
      [] c.type = "CmdDeleteTodo" ->
            LET r == DeleteTodo(store, c.ID)
            IN {[store |-> r.list, msg |-> IF r.err = nil THEN TodoDeletedMsg ELSE TodoErrorMsg(r.err)],
                [store |-> store, msg |-> TodoErrorMsg(IOErr)]}
      [] c.type = "CmdCheckChanges" ->
            {[store |-> store, msg |-> CheckDoneMsg(FALSE, GitErr)],
             [store |-> store, msg |-> CheckDoneMsg(FALSE, nil)],
             [store |-> store, msg |-> CheckDoneMsg(TRUE, nil)]}
      [] OTHER -> {}

\* the goroutine Bubble Tea runs for a tea.Cmd: it performs the command and sends its message
RunCmd(c) ==
    /\ ui.pc = "idle"
    /\ BagIn(c, msgs)
    /\ \E o \in Outcomes(c) :
          /\ store' = o.store
          /\ msgs' = (msgs (-) SetToBag({c})) (+) SetToBag({o.msg})
    /\ UNCHANGED <<instanceCounter, sinks, procs, ui, app, cbLog, conf>>

\* tea.Quit: the program ends
Quit ==
    /\ ui.pc = "idle"
    /\ BagIn([type |-> "Quit"], msgs)
    /\ ui' = [Idle EXCEPT !.pc = "quit"]
    /\ UNCHANGED <<instanceCounter, sinks, procs, msgs, app, store, cbLog, conf>>

\* one step of a goroutine of invocation i
ProcStep(i) ==
    \/ ProcStart(i)
    \/ ProcStartFails(i)
    \/ \E stream \in {"stdout", "stderr"} : ReadLine(i, stream) \/ ReaderEnd(i, stream)
    \/ \E err \in {nil, ExitErr} : ProcWait(i, err)
    \/ ProcSetDone(i)

Proc == ui.pc \notin {"quit", "panic"} /\ \E i \in DOMAIN procs : ProcStep(i)

\* the goroutines of the invocation whose modal is shown; those of a modal
\* that was left are not scheduled (nothing reads their sink any more)
Shown(i) == i = TickTarget.output

\* the command cannot be started (the program is not installed): every
\* invocation ends with the error of cmd.Start
ProcFails ==
    /\ ui.pc \notin {"quit", "panic"}
    /\ \E i \in DOMAIN procs : ProcStartFails(i) \/ ProcSetDone(i)

\* keys pressed in the main menu: select the entry, quit
MenuKeys == {"enter", "esc"}

\* keys pressed in the todo views: open a todo, move to its prompts, improve,
\* close
TodoKeys == {"enter", "shift+tab", "ctrl+i", "esc"}

\* keys pressed in the commit view: commit, confirm, leave
CommitKeys == {"ctrl+s", "enter", "esc"}

HostKeys == MenuKeys \cup CloseKeys \cup TodoKeys \cup CommitKeys

\* a key pressed in the view that is shown; enter is pressed in the todo list
\* only (in a form it opens the text editors) and not while the commit
\* message is edited (there it is text input)
KeyHost(k) ==
    /\ CASE app.currentView = "MainMenuView" -> k \in MenuKeys
         [] app.currentView = "TerminalTestView" -> k \in CloseKeys
         [] app.currentView = "TodosView" ->
                /\ k \in TodoKeys
                /\ k = "enter" => app.todoModel.CurrentView = "ListView"
         [] app.currentView = "CommitView" ->
                /\ k \in CommitKeys
                /\ k = "enter" => app.commitModel.State # "StateEditing"
         [] OTHER -> FALSE
    /\ Key(k)

\* the main menu with the cursor moved to one of the entries that host a
\* terminal modal: TODOs, Smart Commit, Terminal Test
InitHosts ==
    /\ instanceCounter = 0
    /\ sinks = <<>>
    /\ procs = <<>>
    /\ msgs = EmptyBag
    /\ ui = Idle
    /\ app \in {[NewApp(TRUE, "MainMenuView") EXCEPT !.cursor = c] : c \in {3, 4, 5}}
    /\ store = <<SavedTodo>>
    /\ cbLog = <<>>
    /\ conf = NoConf

\* the three hosts of the terminal modal, entered from the main menu and left again
Next ==
    \/ \E k \in HostKeys : KeyHost(k)
    \/ \E id \in 1..MaxSessions : TickBegin(id)
    \/ TickEnd
    \/ \E msg \in BagToSet(msgs) : Deliver(msg)
    \/ \E c \in BagToSet(msgs) : RunCmd(c)
    \/ Quit
    \/ ProcFails

Spec == InitHosts /\ [][Next]_vars

\* a key pressed while the main menu or the Terminal Test modal is shown, and
\* that does not open the todo or the commit view
KeyTerm(k) == Key(k) /\ app'.currentView \in {"MainMenuView", "TerminalTestView"}

\* the Terminal Test modal, opened from the main menu and left open
NextTerm ==
    \/ \E sz \in ScreenSizes : Resize(sz[1], sz[2])
    \/ \E k \in ScrollKeys : KeyTerm(k)
    \/ \E id \in 1..MaxSessions : TickBegin(id)
    \/ TickEnd
    \/ Quit
    \/ Proc

SpecTerm == Init /\ [][NextTerm]_vars

\* the program started with the todo view (gdev todos)
InitTodo ==
    /\ instanceCounter = 0
    /\ sinks = <<>>
    /\ procs = <<>>
    /\ msgs = SetToBag({LoadTodosCmd})
    /\ ui = Idle
    /\ app = NewApp(TRUE, "TodosView")
    /\ store = <<SavedTodo>>
    /\ cbLog = <<>>
    /\ conf = NoConf

\* keys of the first improve session of a run: open the todo, move to its
\* prompts, improve, close the modal or the form
ImproveKeys == {"enter", "shift+tab", "ctrl+i", "esc"}
KeyImprove(k) ==
    /\ k = "enter" => app.todoModel.CurrentView = "ListView"
    /\ k = "esc" => app.todoModel.CurrentView # "ListView"
    /\ k = "ctrl+i" => instanceCounter = 0
    /\ Key(k)

ProcShown == ui.pc \notin {"quit", "panic"} /\ \E i \in DOMAIN procs : Shown(i) /\ ProcStep(i)

NextTodo ==
    \/ \E k \in ImproveKeys : KeyImprove(k)
    \/ \E id \in 1..MaxSessions : TickBegin(id)
    \/ TickEnd
    \/ \E msg \in BagToSet(msgs) : Deliver(msg)
    \/ \E c \in BagToSet(msgs) : RunCmd(c)
    \/ ProcShown

SpecTodo == InitTodo /\ [][NextTodo]_vars

\* keys of the todo form while prompts are improved: open a todo, move to its
\* prompts, save, improve, close the modal or the form
SaveKeys == {"enter", "shift+tab", "ctrl+s", "ctrl+i", "esc"}
KeySave(k) ==
    /\ k = "enter" => app.todoModel.CurrentView = "ListView"
    /\ k = "esc" => app.todoModel.CurrentView # "ListView"
    /\ Key(k)

NextSave ==
    \/ \E k \in SaveKeys : KeySave(k)
    \/ \E id \in 1..MaxSessions : TickBegin(id)
    \/ TickEnd
    \/ \E msg \in BagToSet(msgs) : Deliver(msg)
    \/ \E c \in BagToSet(msgs) : RunCmd(c)
    \/ ProcFails

SpecSave == InitTodo /\ [][NextSave]_vars

----------------------------------------------------------------------------
(* Specification of the todo form: navigation mode and inline edit mode *)

\* keys of the edit form: open the todo, move between the fields, enter and leave the
\* inline edit mode, delete a character, save, cancel.  enter and tab are not pressed in
\* the prompt editor (there they add text)
FormKeys == {"enter", "tab", "backspace", "ctrl+s", "esc"}
KeyForm(k) ==
    /\ app.currentView = "TodosView"
    /\ k \in {"enter", "tab"} => app.todoModel.CurrentView # "PromptEditorView"
    /\ k = "esc" => app.todoModel.CurrentView # "ListView"
    /\ Key(k)

NextForm ==
    \/ \E k \in FormKeys : KeyForm(k)
    \/ \E msg \in BagToSet(msgs) : Deliver(msg)
    \/ \E c \in BagToSet(msgs) : RunCmd(c)

SpecForm == InitTodo /\ [][NextForm]_vars

\* errors a caller may hand to setDone
DoneErrs == {nil, ExitErr, SpawnErr}

\* one sharedOutput and no terminal model: the sink used through its methods
\* by arbitrary callers
InitSink ==
    /\ instanceCounter = 0
    /\ sinks = <<NewSharedOutput>>
    /\ procs = <<NewProc>>
    /\ msgs = EmptyBag
    /\ ui = Idle
    /\ app = NewApp(FALSE, "MainMenuView")
    /\ store = <<>>
    /\ cbLog = <<>>
    /\ conf = NoConf

\* a caller appends a line
SinkAddLine(line) ==
    /\ Len(sinks[1].lines) < MaxStdout
    /\ sinks' = [sinks EXCEPT ![1] = addLine(@, line)]
    /\ UNCHANGED <<instanceCounter, procs, msgs, ui, app, store, cbLog, conf>>

\* a caller marks the sink done
SinkSetDone(err) ==
    /\ sinks' = [sinks EXCEPT ![1] = setDone(@, err)]
    /\ UNCHANGED <<instanceCounter, procs, msgs, ui, app, store, cbLog, conf>>

NextSink ==
    \/ \E stream \in {"stdout", "stderr"} : SinkAddLine(StreamLine(stream, 1))
    \/ \E err \in DoneErrs : SinkSetDone(err)

SpecSink == InitSink /\ [][NextSink]_vars

\* the main menu with the cursor on Terminal Test
InitPoll ==
    /\ instanceCounter = 0
    /\ sinks = <<>>
    /\ procs = <<>>
    /\ msgs = EmptyBag
    /\ ui = Idle
    /\ app = [NewApp(TRUE, "MainMenuView") EXCEPT !.cursor = 5]
    /\ store = <<SavedTodo>>
    /\ cbLog = <<>>
    /\ conf = NoConf

\* enter opens the modal; in the modal the user scrolls up
PollKeys == {"enter", "k"}
KeyPoll(k) ==
    /\ app.currentView = "MainMenuView" => k = "enter"
    /\ KeyTerm(k)

Ticks == \E id \in 1..MaxSessions : TickBegin(id)

\* the Terminal Test modal polling its process until it has exited
NextPoll ==
    \/ \E k \in PollKeys : KeyPoll(k)
    \/ Ticks
    \/ TickEnd
    \/ Proc

\* Bubble Tea handles every message that is queued, the Go scheduler runs
\* every goroutine that can run, and the process exits
SpecPoll ==
    /\ InitPoll /\ [][NextPoll]_vars
    /\ WF_vars(Ticks) /\ WF_vars(TickEnd) /\ WF_vars(Proc)

\* the program started in the todo list, or in the main menu with the cursor
\* on Terminal Test
InitClose ==
    /\ instanceCounter = 0
    /\ sinks = <<>>
    /\ procs = <<>>
    /\ ui = Idle
    /\ \/ app = NewApp(TRUE, "TodosView") /\ msgs = SetToBag({LoadTodosCmd})
       \/ app = [NewApp(TRUE, "MainMenuView") EXCEPT !.cursor = 5] /\ msgs = EmptyBag
    /\ store = <<SavedTodo>>
    /\ cbLog = <<>>
    /\ conf = NoConf

\* keys that open and close the modal: Terminal Test is entered from the menu
\* and left with esc; in the todo views the todo is opened, the cursor moved
\* to its prompts, the prompt improved and the modal closed
KeyClose(k) ==
    /\ CASE app.currentView = "MainMenuView" -> k = "enter"
         [] app.currentView = "TerminalTestView" -> k = "esc"
         [] app.currentView = "TodosView" ->
                /\ k = "enter" => app.todoModel.CurrentView = "ListView"
                /\ k = "esc" => app.todoModel.CurrentView # "ListView"
                /\ k = "shift+tab" => app.todoModel.FormField # FieldPrompts
         [] OTHER -> FALSE
    /\ Key(k)

\* the goroutines of the first invocation of the run, whose command writes to
\* stdout only; they go on after the modal has been closed
ProcFirst ==
    /\ ui.pc \notin {"quit", "panic"} /\ procs # <<>>
    /\ \/ ProcStart(1)
       \/ ReadLine(1, "stdout")
       \/ \E stream \in {"stdout", "stderr"} : ReaderEnd(1, stream)
       \/ \E err \in {nil, ExitErr} : ProcWait(1, err)
       \/ ProcSetDone(1)

\* a modal closed and reopened while the process of its first session runs on
NextClose ==
    \/ \E k \in ImproveKeys : KeyClose(k)
    \/ Ticks
    \/ TickEnd
    \/ \E msg \in BagToSet(msgs) : Deliver(msg)
    \/ \E c \in BagToSet(msgs) : RunCmd(c)
    \/ ProcFirst

SpecClose == InitClose /\ [][NextClose]_vars

----------------------------------------------------------------------------
(* Specification of key matching: handlers test pressed keys against bindings *)

MaxBindings == 2

\* key strings a tea.KeyMsg reports
KeyStrings == {"A", "a", "G", "g", "tab", "shift+tab", "shift+a", "esc", "1", ""}

\* binding strings of a keybindings file
BindingStrings ==
    {"shift+a", "shift+g", "shift+tab", "shift+A", "shift+ab", "shift+1", "shift+", "A", "G", "a", "esc"}

BindingLists == UNION {[1..n -> BindingStrings] : n \in 0..MaxBindings}

InitKeys ==
    /\ instanceCounter = 0
    /\ sinks = <<>>
    /\ procs = <<>>
    /\ msgs = EmptyBag
    /\ ui = Idle
    /\ app = NewApp(FALSE, "MainMenuView")
    /\ store = <<>>
    /\ cbLog = <<>>
    /\ conf = NoConf

\* a handler calls Matches(key, binding)
CallMatches(key, binding) ==
    /\ conf.match = NoMatch
    /\ conf' = [conf EXCEPT !.match = [fn |-> "Matches", key |-> key, bindings |-> <<binding>>,
                                       result |-> Matches(key, binding)]]
    /\ UNCHANGED <<instanceCounter, sinks, procs, msgs, ui, app, store, cbLog>>

\* a handler calls MatchesAny(key, bindings...)
CallMatchesAny(key, bindings) ==
    /\ conf.match = NoMatch
    /\ conf' = [conf EXCEPT !.match = [fn |-> "MatchesAny", key |-> key, bindings |-> bindings,
                                       result |-> MatchesAny(key, bindings)]]
    /\ UNCHANGED <<instanceCounter, sinks, procs, msgs, ui, app, store, cbLog>>

\* the handler has acted on the result and returns
MatchReturn ==
    /\ conf.match # NoMatch
    /\ conf' = [conf EXCEPT !.match = NoMatch]
    /\ UNCHANGED <<instanceCounter, sinks, procs, msgs, ui, app, store, cbLog>>

NextKeys ==
    \/ \E key \in KeyStrings, binding \in BindingStrings : CallMatches(key, binding)
    \/ \E key \in KeyStrings, bindings \in BindingLists : CallMatchesAny(key, bindings)
    \/ MatchReturn

SpecKeys == InitKeys /\ [][NextKeys]_vars

----------------------------------------------------------------------------
(* Specification of the keybindings file: SaveKeybindings, LoadKeybindings and the user's editor *)

\* the Keybindings a caller saves: the defaults with some fields changed or emptied
KbInputs ==
    {[DefaultKeybindings EXCEPT !.Global.Quit = q, !.Global.Help = h, !.List.New = n, !.Editor.Cancel = c]
        : q \in {"esc", "", "ctrl+q"}, h \in {"?", "<", "\\", "\""}, n \in {"n", "", "shift+a"},
          c \in {"esc", "ctrl+x"}}
    \cup {ZeroKeybindings}

InitConfig == InitKeys

\* SaveKeybindings(s, k)
CallSave(k) ==
    \E w \in SaveKeybindings(conf.file, k) :
        /\ conf' = [conf EXCEPT !.file = w.file, !.err = w.err, !.kb = <<>>,
                                !.saved = IF w.err = nil THEN <<k>> ELSE <<>>, !.op = "Save"]
        /\ UNCHANGED <<instanceCounter, sinks, procs, msgs, ui, app, store, cbLog>>

\* LoadKeybindings(s)
CallLoad ==
    \E r \in LoadKeybindings(conf.file) :
        /\ conf' = [conf EXCEPT !.file = r.file, !.err = r.err, !.kb = r.kb, !.op = "Load",
                                !.saved = IF r.file = conf.file THEN @
                                          ELSE IF r.err = nil THEN <<DefaultKeybindings>> ELSE <<>>]
        /\ UNCHANGED <<instanceCounter, sinks, procs, msgs, ui, app, store, cbLog>>

\* a JSON document without one member of one section
DropMember(doc, st, ft) ==
    [doc EXCEPT ![st] = [t \in DOMAIN doc[st] \ {ft} |-> doc[st][t]]]

\* a JSON document without one section
DropSection(doc, st) == [t \in DOMAIN doc \ {st} |-> doc[t]]

\* what the user's editor can leave of keybindings.json
Edits(file) ==
    {NoFile, CorruptFile}
    \cup (IF file.exists /\ file.valid
          THEN {JSONFile(DropSection(file.doc, "detail")),
                JSONFile(DropMember(file.doc, "global", "quit"))}
          ELSE {})

\* the user edits or removes keybindings.json
EditFile ==
    \E f \in Edits(conf.file) :
        /\ conf' = [conf EXCEPT !.file = f, !.err = nil, !.kb = <<>>, !.saved = <<>>, !.op = "Edit"]
        /\ UNCHANGED <<instanceCounter, sinks, procs, msgs, ui, app, store, cbLog>>

NextConfig ==
    \/ \E k \in KbInputs : CallSave(k)
    \/ CallLoad
    \/ EditFile

SpecConfig == InitConfig /\ [][NextConfig]_vars

----------------------------------------------------------------------------
(* Specification of the commit flow: check, generate, edit, commit *)

\* the main menu with the cursor on Smart Commit; or the commit view entered for the second
\* time while the check of the first visit, left with esc, is still running
InitCommit ==
    /\ instanceCounter = 0
    /\ sinks = <<>>
    /\ procs = <<>>
    /\ ui = Idle
    /\ \/ app = [NewApp(TRUE, "MainMenuView") EXCEPT !.cursor = 4] /\ msgs = EmptyBag
       \/ /\ app = [NewApp(TRUE, "MainMenuView") EXCEPT
                        !.cursor = 4, !.currentView = "CommitView",
                        !.commitModel = NewCommitModel]
          /\ msgs = SetToBag({CheckChangesCmd}) (+) SetToBag({CheckChangesCmd})
    /\ store = <<SavedTodo>>
    /\ cbLog = <<>>
    /\ conf = NoConf

\* keys of the commit flow: Smart Commit is entered from the menu while a session can
\* still be opened; the generated message is submitted as it is; the view is left right
\* after a command has been started (its ticks then reach the next flow) or when the flow
\* has ended
CommitFlowKeys == {"enter", "ctrl+s", "esc"}

KeyCommit(k) ==
    /\ CASE app.currentView = "MainMenuView" -> k = "enter" /\ instanceCounter < MaxSessions
         [] app.currentView = "CommitView" ->
                /\ k # "enter"
                /\ k = "ctrl+s" => app.commitModel.State = "StateEditing"
                /\ k = "esc" =>
                      \/ app.commitModel.State \in {"StateNoChanges", "StateDone", "StateError"}
                      \/ /\ app.commitModel.State \in {"StateGenerating", "StateCommitting"}
                         /\ procs[app.commitModel.Terminal.output].pc = "start"
         [] OTHER -> FALSE
    /\ Key(k)

MaxMessage == 2

\* the goroutines of the command shown in the commit view: claude and git print a message
\* of at most MaxMessage lines on stdout and nothing on stderr; they are scheduled when no
\* command or message of the runtime is in flight
ProcCommit ==
    /\ ui.pc \notin {"quit", "panic"}
    /\ Pending(msgs) = 0
    /\ \E i \in DOMAIN procs :
          /\ Shown(i)
          /\ \/ ProcStart(i)
             \/ ProcStartFails(i)
             \/ procs[i].n["stdout"] < MaxMessage /\ ReadLine(i, "stdout")
             \/ \E stream \in {"stdout", "stderr"} : ReaderEnd(i, stream)
             \/ \E err \in {nil, ExitErr} : ProcWait(i, err)
             \/ ProcSetDone(i)

NextCommit ==
    \/ \E k \in CommitFlowKeys : KeyCommit(k)
    \/ Ticks
    \/ TickEnd
    \/ \E msg \in BagToSet(msgs) : Deliver(msg)
    \/ \E c \in BagToSet(msgs) : RunCmd(c)
    \/ ProcCommit

SpecCommit == InitCommit /\ [][NextCommit]_vars

----------------------------------------------------------------------------
(* Specification of the commit subject: the generated message and its edits *)

\* a line of n characters printed by the command
RECURSIVE LineOfLen(_)
LineOfLen(n) == IF n = 0 THEN "" ELSE "a" \o LineOfLen(n - 1)

\* the first lines claude may print: one character less than the subject limit, exactly
\* the limit, one character more
GeneratedSubjects == {LineOfLen(n) : n \in (SubjectLimit - 1)..(SubjectLimit + 1)}

\* readPipeToOutput: scanner.Scan() returned true, output.addLine(scanner.Text())
ScanText(i, stream, text) ==
    /\ procs[i].rd[stream] = "run"
    /\ sinks' = [sinks EXCEPT ![i] = addLine(@, text)]
    /\ procs' = [procs EXCEPT ![i].n[stream] = @ + 1]
    /\ UNCHANGED <<instanceCounter, msgs, ui, app, store, cbLog, conf>>

InitSubject ==
    /\ instanceCounter = 0
    /\ sinks = <<>>
    /\ procs = <<>>
    /\ ui = Idle
    /\ app = [NewApp(TRUE, "MainMenuView") EXCEPT !.cursor = 4]
    /\ msgs = EmptyBag
    /\ store = <<SavedTodo>>
    /\ cbLog = <<>>
    /\ conf = NoConf

\* Smart Commit is entered once; a generated subject that is one character below the
\* limit or longer is extended at its end, any subject is shortened and submitted; the
\* view is left when the flow has ended
SubjectKeys == {"enter", "x", "backspace", "ctrl+s", "esc"}

KeySubject(k) ==
    /\ CASE app.currentView = "MainMenuView" -> k = "enter" /\ instanceCounter = 0
         [] app.currentView = "CommitView" ->
                IF k = "esc"
                THEN app.commitModel.State \in {"StateNoChanges", "StateDone", "StateError"}
                ELSE /\ k # "enter"
                     /\ app.commitModel.State = "StateEditing"
                     /\ k = "x" => ByteLen(app.commitModel.Subject) >= SubjectLimit - 1
         [] OTHER -> FALSE
    /\ Key(k)

\* the goroutines of the command shown in the commit view: the command prints at most one
\* line on stdout, of a length around the subject limit, and exits with status 0
ProcSubject ==
    /\ ui.pc \notin {"quit", "panic"}
    /\ Pending(msgs) = 0
    /\ \E i \in DOMAIN procs :
          /\ Shown(i)
          /\ \/ ProcStart(i)
             \/ /\ procs[i].n["stdout"] = 0
                /\ \E text \in GeneratedSubjects : ScanText(i, "stdout", text)
             \/ \E stream \in {"stdout", "stderr"} : ReaderEnd(i, stream)
             \/ ProcWait(i, nil)
             \/ ProcSetDone(i)

NextSubject ==
    \/ \E k \in SubjectKeys : KeySubject(k)
    \/ Ticks
    \/ TickEnd
    \/ \E msg \in BagToSet(msgs) : Deliver(msg)
    \/ \E c \in BagToSet(msgs) : RunCmd(c)
    \/ ProcSubject

SpecSubject == InitSubject /\ [][NextSubject]_vars

----------------------------------------------------------------------------
(* Specification of the todo store: the stored list of one repository under *)
(* AddTodo, UpdateTodo and DeleteTodo                                       *)

MaxTodos == 3

\* generateID() of the todos of a run, and the names they are given
TodoIDs == 1..MaxTodos
TodoNames == {<<"t">>, <<"u">>}

InitStore ==
    /\ instanceCounter = 0
    /\ sinks = <<>>
    /\ procs = <<>>
    /\ msgs = EmptyBag
    /\ ui = Idle
    /\ app = NewApp(FALSE, "MainMenuView")
    /\ store = <<>>
    /\ cbLog = <<>>
    /\ conf = NoConf

\* s.AddTodo(repoPath, t) with a todo made by todo.NewTodo: its ID is fresh
CallAddTodo(t) ==
    /\ \A i \in DOMAIN store : store[i].ID # t.ID
    /\ store' = AddTodo(store, t).list
    /\ conf' = [conf EXCEPT !.op = "AddTodo", !.arg = t.ID, !.err = AddTodo(store, t).err]
    /\ UNCHANGED <<instanceCounter, sinks, procs, msgs, ui, app, cbLog>>

\* s.UpdateTodo(repoPath, t)
CallUpdateTodo(t) ==
    /\ store' = UpdateTodo(store, t).list
    /\ conf' = [conf EXCEPT !.op = "UpdateTodo", !.arg = t.ID, !.err = UpdateTodo(store, t).err]
    /\ UNCHANGED <<instanceCounter, sinks, procs, msgs, ui, app, cbLog>>

\* s.DeleteTodo(repoPath, todoID)
CallDeleteTodo(todoID) ==
    /\ store' = DeleteTodo(store, todoID).list
    /\ conf' = [conf EXCEPT !.op = "DeleteTodo", !.arg = todoID, !.err = DeleteTodo(store, todoID).err]
    /\ UNCHANGED <<instanceCounter, sinks, procs, msgs, ui, app, cbLog>>

TodoInputs == {NewTodo(id, <<"main">>, name, <<>>, << <<"p">> >>) : id \in TodoIDs, name \in TodoNames}

NextStore ==
    \/ \E t \in TodoInputs : CallAddTodo(t)
    \/ \E t \in TodoInputs : CallUpdateTodo(t)
    \/ \E id \in TodoIDs : CallDeleteTodo(id)

SpecStore == InitStore /\ [][NextStore]_vars

----------------------------------------------------------------------------
(* Specification of the todo list view: navigation, create, delete, reload *)

\* the todos view of a repository with two saved todos, before the first load
InitList ==
    /\ instanceCounter = 0
    /\ sinks = <<>>
    /\ procs = <<>>
    /\ msgs = SetToBag({LoadTodosCmd})
    /\ ui = Idle
    /\ app = NewApp(TRUE, "TodosView")
    /\ store = <<SavedTodo, NewTodo(2, <<"main">>, <<"u">>, <<>>, << <<"p">> >>)>>
    /\ cbLog = <<>>
    /\ conf = NoConf

\* keys of the list view (navigation, select, new, delete) and of the delete
\* confirmation; the edit form is cancelled, the create form is given a name of one
\* character and submitted; a todo is created while the IDs of the stored todos are
\* below MaxTodos; a key is pressed when no command is in flight
ListNavKeys == {"k", "j", "g", "G", "ctrl+u", "ctrl+d"}
ListKeys == ListNavKeys \cup {"enter", "n", "d", "y", "tab", "x", "ctrl+s", "esc"}

KeyList(k) ==
    /\ app.currentView = "TodosView"
    /\ Pending(msgs) = 0
    /\ CASE app.todoModel.CurrentView = "ListView" ->
                /\ k \in ListNavKeys \cup {"enter", "n", "d"}
                /\ k = "n" => \A i \in DOMAIN store : store[i].ID < MaxTodos
         [] app.todoModel.CurrentView = "DeleteConfirmView" -> k \in {"y", "n"}
         [] app.todoModel.CurrentView = "EditView" -> k = "esc"
         [] app.todoModel.CurrentView = "CreateView" ->
                /\ k \in {"tab", "enter", "x", "ctrl+s"}
                /\ k = "tab" => app.todoModel.FormField = FieldBranch
                /\ k = "enter" => app.todoModel.FormField = FieldName
                /\ k = "x" => /\ app.todoModel.FormEditing
                              /\ app.todoModel.FormField = FieldName
                              /\ app.todoModel.FormName = <<>>
                /\ k = "ctrl+s" => ~app.todoModel.FormEditing /\ app.todoModel.FormName # <<>>
         [] OTHER -> FALSE
    /\ Key(k)

NextList ==
    \/ \E k \in ListKeys : KeyList(k)
    \/ \E msg \in BagToSet(msgs) : Deliver(msg)
    \/ \E c \in BagToSet(msgs) : RunCmd(c)

SpecList == InitList /\ [][NextList]_vars

----------------------------------------------------------------------------
(* Specification of the prompts of the todo form: navigation, add, delete,  *)
(* the prompt editor and the improve modal                                  *)

MaxPrompts == 2

\* keys of the form in navigation mode (fields, prompts, add, delete, edit, improve,
\* cancel), of the prompt editor (delete a character, save, cancel) and of the modal
\* (close, right after the command was started or when it has finished); a prompt is
\* added while the form has fewer than MaxPrompts, and one prompt of a run is improved
PromptKeys == {"enter", "tab", "shift+tab", "j", "k", "ctrl+a", "ctrl+d", "ctrl+i",
               "backspace", "ctrl+s", "esc"}

KeyPrompts(k) ==
    /\ app.currentView = "TodosView"
    /\ CASE app.todoModel.CurrentView = "ListView" -> k = "enter"
         [] app.todoModel.CurrentView = "EditView" ->
                /\ k \notin {"backspace", "ctrl+s"}
                /\ k = "enter" => app.todoModel.FormField = FieldPrompts
                /\ k = "ctrl+a" => Len(app.todoModel.FormPrompts) < MaxPrompts
                /\ k = "ctrl+i" => instanceCounter = 0
         [] app.todoModel.CurrentView = "PromptEditorView" -> k \in {"backspace", "ctrl+s", "esc"}
         [] app.todoModel.CurrentView = "TerminalView" ->
                /\ k = "esc"
                /\ \/ ~app.todoModel.Terminal.Running
                   \/ procs[app.todoModel.Terminal.output].pc = "start"
         [] OTHER -> FALSE
    /\ Key(k)

NextPrompts ==
    \/ \E k \in PromptKeys : KeyPrompts(k)
    \/ Ticks
    \/ TickEnd
    \/ \E msg \in BagToSet(msgs) : Deliver(msg)
    \/ \E c \in BagToSet(msgs) : RunCmd(c)
    \/ ProcCommit

SpecPrompts == InitTodo /\ [][NextPrompts]_vars

----------------------------------------------------------------------------
(* Specification of concurrent store commands: Bubble Tea runs every        *)
(* tea.Cmd in a goroutine of its own, and a store command reads the list    *)
(* of the repository (GetTodos) and writes it back (SaveTodos)              *)

RaceTodos == 2

\* the store commands that saveForm and the delete confirmation return
StoreCmds ==
    {[type |-> "CmdAddTodo", t |-> NewTodo(id, <<"main">>, <<"t">>, <<>>, <<>>),
      phase |-> "issued", list |-> <<>>] : id \in 1..RaceTodos}
    \cup {[type |-> "CmdUpdateTodo", t |-> NewTodo(id, <<"main">>, <<"u">>, <<>>, <<>>),
           phase |-> "issued", list |-> <<>>] : id \in 1..RaceTodos}
    \cup {[type |-> "CmdDeleteTodo", t |-> NewTodo(id, <<"main">>, <<"t">>, <<>>, <<>>),
           phase |-> "issued", list |-> <<>>] : id \in 1..RaceTodos}

\* a handler returns a store command while at most one other is in flight; the ID of a
\* new todo is one that generateID has not returned before (conf.ids)
IssueStoreCmd(c) ==
    /\ BagCardinality(msgs) < 2
    /\ c.type = "CmdAddTodo" => c.t.ID \notin conf.ids
    /\ msgs' = msgs (+) SetToBag({c})
    /\ conf' = IF c.type = "CmdAddTodo" THEN [conf EXCEPT !.ids = @ \cup {c.t.ID}] ELSE conf
    /\ UNCHANGED <<instanceCounter, sinks, procs, ui, app, store, cbLog>>

\* list, err := s.GetTodos(repoPath): the goroutine of the command has read the file
CmdGetTodos(c) ==
    /\ BagIn(c, msgs) /\ c.phase = "issued"
    /\ msgs' = (msgs (-) SetToBag({c})) (+) SetToBag({[c EXCEPT !.phase = "loaded", !.list = store]})
    /\ UNCHANGED <<instanceCounter, sinks, procs, ui, app, store, cbLog, conf>>

\* the result of the command on the list it has read
StoreResult(c) ==
    CASE c.type = "CmdAddTodo" -> AddTodo(c.list, c.t)
      [] c.type = "CmdUpdateTodo" -> UpdateTodo(c.list, c.t)
      [] OTHER -> DeleteTodo(c.list, c.t.ID)

\* the rest of the command: the list is changed and s.SaveTodos(list) writes the file, or
\* ErrNotFound is returned; the command ends
CmdSaveTodos(c) ==
    /\ BagIn(c, msgs) /\ c.phase = "loaded"
    /\ store' = IF StoreResult(c).err = nil THEN StoreResult(c).list ELSE store
    /\ msgs' = msgs (-) SetToBag({c})
    /\ conf' = [conf EXCEPT !.op = c.type, !.arg = c.t.ID, !.err = StoreResult(c).err]
    /\ UNCHANGED <<instanceCounter, sinks, procs, ui, app, cbLog>>

NextRace ==
    \/ \E c \in StoreCmds : IssueStoreCmd(c)
    \/ \E c \in BagToSet(msgs) : CmdGetTodos(c)
    \/ \E c \in BagToSet(msgs) : CmdSaveTodos(c)

SpecRace == InitStore /\ [][NextRace]_vars

----------------------------------------------------------------------------
(* Properties *)

\* every terminal.Model held by a Bubble Tea model
Terminals == {app.terminal, app.todoModel.Terminal, app.commitModel.Terminal}

\* a TickMsg carrying the ID of model m has just been handled by handleTick
TickHandled(m) == ui.pc = "tick" /\ ui'.pc = "idle" /\ ui.ID = m.ID /\ m.output # NoSink

\* C1: in every reachable state the scroll offset of a terminal modal lies in
\* [0, max(0, len(Lines) - visibleLines())], also after a resize
C1_ScrollPosInRange ==
    \A m \in Terminals :
        0 <= m.ScrollPos /\ m.ScrollPos <= Max(0, Len(m.Lines) - visibleLines(m))

\* C3: the display buffer never holds more than MaxLines lines, the state
\* after the completing tick included
C3_LinesWithinMaxLines ==
    \A m \in Terminals : Len(m.Lines) <= m.MaxLines \/ m.ID = 0

\* C4: a tick that reads more than MaxLines lines from the sink shows the
\* command header as first display line, followed by the newest output lines
C4_TruncationKeepsHeader ==
    [][ (TickHandled(app.terminal) /\ Len(ui.newLines) > app.terminal.MaxLines /\ app'.terminal.Running)
        => /\ Head(app'.terminal.Lines) = Header(app.terminal.Command)
           /\ \E k \in 1..Len(ui.newLines) :
                 Tail(app'.terminal.Lines) = SubSeq(ui.newLines, k, Len(ui.newLines)) ]_vars

\* the fields of a terminal.Model that a tick may change
Display(m) == <<m.Lines, m.ScrollPos, m.AutoScroll, m.Running, m.Err>>

\* C2: handling a TickMsg whose ID is not the ID of the terminal.Model the
\* current view forwards ticks to changes no display field of any terminal
\* model held by the app, todo and commit models, schedules no further tick
\* and leaves the commit flow in its state
C2_StaleTickIgnored ==
    [][ (ui.pc = "tick" /\ ui'.pc = "idle" /\ ui.ID # TickTarget.ID)
        => /\ Display(app'.terminal) = Display(app.terminal)
           /\ Display(app'.todoModel.Terminal) = Display(app.todoModel.Terminal)
           /\ Display(app'.commitModel.Terminal) = Display(app.commitModel.Terminal)
           /\ \A id \in 1..MaxSessions : CopiesIn(TickMsg(id), msgs') = CopiesIn(TickMsg(id), msgs)
           /\ app'.commitModel.State = app.commitModel.State ]_vars

\* the commit view is generating with a later session while the tick of an
\* abandoned session is being handled
C2_Witness ==
    /\ ui.pc = "tick"
    /\ app.currentView = "CommitView" /\ app.commitModel.State = "StateGenerating"
    /\ app.commitModel.Terminal.Running
    /\ ui.ID # app.commitModel.Terminal.ID

\* C5: the completion callback of a terminal session opened from todo.Model
\* is invoked at most once
C5_CallbackAtMostOnce ==
    \A i, j \in DOMAIN cbLog : cbLog[i].sid = cbLog[j].sid => i = j

\* the callback of a session was invoked, a later session is open in the
\* modal and a tick of the closed session is still to be delivered
C5_Witness ==
    /\ Len(cbLog) >= 1
    /\ app.todoModel.CurrentView = "TerminalView"
    /\ app.todoModel.Terminal.ID > cbLog[1].sid
    /\ BagIn(TickMsg(cbLog[1].sid), msgs)

\* C6: whenever the todo model leaves the terminal modal, the completion
\* callback of the session shown in it has been invoked exactly once
C6_LeftModalHadCallback ==
    [][ (app.todoModel.CurrentView = "TerminalView" /\ app'.todoModel.CurrentView # "TerminalView")
        => Cardinality({i \in DOMAIN cbLog' : cbLog'[i].sid = app.todoModel.Terminal.ID}) = 1 ]_vars

\* C7: the output handed to the completion callback consists of exactly the
\* lines the sink holds at that moment, one per line, and is empty for an empty sink
C7_OutputIsSinkLines ==
    [][ Len(cbLog') > Len(cbLog)
        => LET output == cbLog'[Len(cbLog')].output
               lines == getLines(sinks[app.todoModel.Terminal.output])
           IN IF lines = <<>> THEN output = <<>>
              ELSE SplitLines(output) = [k \in 1..Len(lines) |-> <<lines[k]>>] ]_vars

\* the callback received more lines than the display buffer could hold next
\* to its header, from a session whose display also carries the status lines
C7_Witness ==
    \E i \in DOMAIN cbLog :
        /\ Len(SplitLines(cbLog[i].output)) + 2 > MaxLines
        /\ app.todoModel.Terminal.ID = cbLog[i].sid
        /\ ~app.todoModel.Terminal.Running
        /\ Len(app.todoModel.Terminal.Lines) > 2

IsPrefix(a, b) == Len(a) <= Len(b) /\ SubSeq(b, 1, Len(a)) = a

\* the lines of one stream, in the order in which they stand in a buffer
OfStream(lines, stream) ==
    LET Mine(l) == l \in {StreamLine(stream, k) : k \in 1..StreamBound(stream)}
    IN SelectSeq(lines, Mine)

\* C8: once a sink is marked done no line is appended to it any more
C8_NoAppendAfterDone ==
    [][ \A i \in DOMAIN sinks : sinks[i].done => sinks'[i].lines = sinks[i].lines ]_vars

\* a sink marked done after both readers appended lines to it
C8_Witness ==
    \E i \in DOMAIN sinks :
        sinks[i].done /\ procs[i].n["stdout"] >= 1 /\ procs[i].n["stderr"] >= 1

\* C9: a sink holds exactly the lines its two readers appended, none lost or
\* duplicated, the lines of each stream in the order in which they arrived
C9_NoLineLost ==
    \A i \in DOMAIN sinks :
        /\ Len(getLines(sinks[i])) = procs[i].n["stdout"] + procs[i].n["stderr"]
        /\ \A stream \in {"stdout", "stderr"} :
              OfStream(getLines(sinks[i]), stream) =
                  [k \in 1..procs[i].n[stream] |-> StreamLine(stream, k)]

\* a completed invocation whose stderr line arrived between two stdout lines,
\* read by a tick while the readers were still running
C9_Witness ==
    \E i \in DOMAIN sinks :
        /\ sinks[i].done /\ procs[i].n["stdout"] >= 2 /\ procs[i].n["stderr"] >= 1
        /\ sinks[i].lines[1] = StreamLine("stdout", 1) /\ sinks[i].lines[2] = StreamLine("stderr", 1)
        /\ Len(app.terminal.Lines) > 2 /\ app.terminal.Running

\* C10: a snapshot is a prefix of every later snapshot of the same sink: the
\* buffer only grows at its end, and the copy a tick holds stays a prefix of it
C10_SnapshotsGrow ==
    /\ [][ \A i \in DOMAIN sinks : IsPrefix(getLines(sinks[i]), getLines(sinks'[i])) ]_vars
    /\ [](ui.pc = "tick" /\ TickTarget.output # NoSink
            => IsPrefix(ui.newLines, getLines(sinks[TickTarget.output])))

\* a tick holds a non-empty snapshot and the sink has grown since it was taken
C10_Witness ==
    /\ ui.pc = "tick" /\ TickTarget.output # NoSink
    /\ Len(ui.newLines) >= 1
    /\ Len(getLines(sinks[TickTarget.output])) > Len(ui.newLines)

\* C11: setDone is idempotent: on a sink that is already done a further call,
\* whatever its error, leaves the done flag set and the first error in place
C11_SetDoneIdempotent ==
    [][ sinks[1].done => sinks'[1].done /\ sinks'[1].err = sinks[1].err ]_vars

\* the keys of the six scroll operations: scroll up, scroll down, page up,
\* page down, jump to top, jump to bottom
ScrollOps == {"k", "up", "j", "down", "ctrl+u", "ctrl+d", "g", "G"}

\* the Terminal Test modal has handled the scroll key k in this step
Scrolled(k) ==
    /\ app.currentView = "TerminalTestView" /\ ui.pc = "idle"
    /\ app' = [app EXCEPT !.terminal = handleKey(app.terminal, KeyMsg(k))]
    /\ UNCHANGED <<instanceCounter, sinks, procs, msgs, ui, store, cbLog, conf>>

\* C12: after every scroll operation AutoScroll is true exactly if the
\* resulting ScrollPos equals maxScroll()
C12_AutoScrollIffAtBottom ==
    [][ (\E k \in ScrollOps : Scrolled(k))
        => (app'.terminal.AutoScroll <=> app'.terminal.ScrollPos = maxScroll(app'.terminal)) ]_vars

\* C13: jump-to-top sets ScrollPos to 0 and disables AutoScroll; jump-to-bottom
\* sets ScrollPos to maxScroll() and enables AutoScroll
C13_JumpTopBottom ==
    [][ /\ Scrolled(kb.List.Top)
            => app'.terminal.ScrollPos = 0 /\ ~app'.terminal.AutoScroll
        /\ Scrolled(normalizeBinding(kb.List.Bottom))
            => /\ app'.terminal.ScrollPos = Max(0, Len(app.terminal.Lines) - visibleLines(app.terminal))
               /\ app'.terminal.AutoScroll ]_vars

\* the modal shows the top of a buffer that is two lines longer than the
\* viewport, with auto-scroll off
C13_Witness ==
    /\ app.currentView = "TerminalTestView"
    /\ maxScroll(app.terminal) >= 2
    /\ app.terminal.ScrollPos = 0 /\ ~app.terminal.AutoScroll

\* the status lines handleTick can append
StatusLines == {StatusLine(err) : err \in DoneErrs}

\* how many status lines the display buffer of m holds
StatusCount(m) == Cardinality({i \in DOMAIN m.Lines : m.Lines[i] \in StatusLines})

\* C14: within one terminal session the status line is appended to the
\* display buffer exactly once, by the tick that first observes done: a
\* running session shows none, a stopped one shows one, and no later tick
\* or key changes the display buffer of a stopped session
C14_StatusLineOnce ==
    /\ [](\A m \in Terminals :
            m.output # NoSink => StatusCount(m) = IF m.Running THEN 0 ELSE 1)
    /\ [][ (app.terminal.output # NoSink /\ ~app.terminal.Running
                /\ app'.terminal.ID = app.terminal.ID)
            => app'.terminal.Lines = app.terminal.Lines ]_vars

\* a stopped session that shows its status line and has been scrolled by a
\* key since the completing tick
C14_Witness ==
    /\ app.terminal.output # NoSink /\ ~app.terminal.Running
    /\ StatusCount(app.terminal) = 1
    /\ ~app.terminal.AutoScroll
    /\ app.terminal.ScrollPos < maxScroll(app.terminal)

\* C15: a matching tick schedules the next tick exactly if the sink is not
\* done; a running session eventually stops, and a stopped session has no
\* tick queued or being handled
C15_PollsUntilDone ==
    /\ [][ (ui.pc = "tick" /\ ui'.pc = "idle" /\ app.currentView = "TerminalTestView"
                /\ ui.ID = app.terminal.ID /\ app.terminal.output # NoSink)
            => (BagIn(tick(app.terminal), msgs') <=> ~isDone(sinks[app.terminal.output]).done) ]_vars
    /\ app.terminal.Running ~> ~app.terminal.Running
    /\ [](app.terminal.output # NoSink /\ ~app.terminal.Running
            => /\ ~BagIn(tick(app.terminal), msgs)
               /\ ~(ui.pc = "tick" /\ ui.ID = app.terminal.ID))

\* the session has stopped after ticks that found the sink not done and
\* showed output of the process
C15_Witness ==
    /\ app.terminal.output # NoSink /\ ~app.terminal.Running
    /\ Len(app.terminal.Lines) > 4
    /\ msgs = EmptyBag

\* the command of the session shown by m could not be started
SpawnFailed(m) ==
    /\ m.output # NoSink
    /\ procs[m.output].pc \in {"return", "exited"} /\ procs[m.output].ret = SpawnErr

\* C16: a session whose command cannot be started has no tick loop, is never
\* Running and has no completion callback invoked
C16_SpawnErrorSynchronous ==
    \A m \in Terminals :
        SpawnFailed(m) => /\ ~m.Running
                          /\ ~BagIn(tick(m), msgs)
                          /\ \A i \in DOMAIN cbLog : cbLog[i].sid # m.ID

\* the process of the session shown by the todo modal wrote two lines to
\* stdout, nothing to stderr, and exited with status 0
TwoLinesExit0 ==
    LET t == app.todoModel.Terminal IN
    /\ t.output # NoSink
    /\ procs[t.output].pc = "exited" /\ procs[t.output].ret = nil
    /\ procs[t.output].n = [stdout |-> 2, stderr |-> 0]

\* C17: when the modal of such a session is closed after the completing
\* tick, the callback is invoked, for the first and only time, with the two
\* lines joined by a newline, Err is nil and the display ends with the
\* success status line
C17_TwoLinesThenClose ==
    [][ (TwoLinesExit0 /\ ~app.todoModel.Terminal.Running
            /\ app.todoModel.CurrentView = "TerminalView"
            /\ app'.todoModel.CurrentView # "TerminalView")
        => LET t == app'.todoModel.Terminal IN
           /\ cbLog' = Append(cbLog, [sid |-> t.ID, output |-> <<"o1", "\n", "o2">>])
           /\ \A i \in DOMAIN cbLog : cbLog[i].sid # t.ID
           /\ GetRawOutput(t) = <<"o1", "\n", "o2">>
           /\ t.Err = nil
           /\ t.Lines[Len(t.Lines)] = StatusLine(nil) ]_vars

\* the modal of a session that printed two lines and exited with status 0
\* has been closed after the completing tick and the callback has run
C17_Witness ==
    /\ TwoLinesExit0
    /\ app.todoModel.CurrentView # "TerminalView"
    /\ ~app.todoModel.Terminal.Running
    /\ Len(cbLog) = 1 /\ cbLog[1].sid = app.todoModel.Terminal.ID

\* the process of the session shown by m wrote a line to stderr and exited
\* with a non-zero status
StderrThenFail(m) ==
    /\ m.output # NoSink
    /\ procs[m.output].pc = "exited" /\ procs[m.output].ret = ExitErr
    /\ procs[m.output].n["stderr"] >= 1

\* C18: for such a session the error of the sink is non-nil and the raw
\* output contains the stderr line; after the completing tick the Err of the
\* model is non-nil and the display buffer contains the error status line
C18_FailureSurfaced ==
    \A m \in Terminals :
        StderrThenFail(m)
        => /\ isDone(sinks[m.output]).done /\ isDone(sinks[m.output]).err # nil
           /\ \E i \in DOMAIN GetRawOutput(m) : GetRawOutput(m)[i] = StreamLine("stderr", 1)
           /\ ~m.Running
                => /\ m.Err # nil
                   /\ \E i \in DOMAIN m.Lines : m.Lines[i] = StatusLine(isDone(sinks[m.output]).err)
                   /\ StatusLine(isDone(sinks[m.output]).err) # StatusLine(nil)

\* the completing tick of a session whose process printed to stdout and to
\* stderr and exited with a non-zero status has been handled
C18_Witness ==
    /\ StderrThenFail(app.terminal)
    /\ ~app.terminal.Running
    /\ procs[app.terminal.output].n["stdout"] >= 1

\* the modal of the session of m was closed before a tick saw the sink done
ClosedRunning(m) == m.output # NoSink /\ m.Running /\ m.ID # TickTarget.ID

\* C19: closing the modal while the process runs leaves the process and its
\* sink alone and ends polling: a tick of a closed session changes nothing
\* in the models and schedules no tick, the display of a closed session
\* stays as it was, and the callback only ever receives what the sink held
\* at the moment of the close
C19_CloseEndsPolling ==
    /\ [][ (TickTarget.Running /\ TickTarget'.ID # TickTarget.ID)
            => procs' = procs /\ sinks' = sinks ]_vars
    /\ [][ (ui.pc = "tick" /\ ui'.pc = "idle" /\ ui.ID # TickTarget.ID)
            => app' = app /\ msgs' = msgs /\ cbLog' = cbLog ]_vars
    /\ [][ /\ (ClosedRunning(app.terminal) /\ app'.terminal.ID = app.terminal.ID)
                => Display(app'.terminal) = Display(app.terminal)
           /\ (ClosedRunning(app.todoModel.Terminal)
                    /\ app'.todoModel.Terminal.ID = app.todoModel.Terminal.ID)
                => Display(app'.todoModel.Terminal) = Display(app.todoModel.Terminal) ]_vars
    /\ [][ cbLog' # cbLog
            => /\ app.todoModel.CurrentView = "TerminalView"
               /\ app'.todoModel.CurrentView # "TerminalView"
               /\ cbLog' = Append(cbLog, [sid |-> app.todoModel.Terminal.ID,
                                          output |-> GetRawOutput(app.todoModel.Terminal)]) ]_vars

\* the todo modal was closed while its process was running; the process has
\* since written more lines and exited, the last tick of the session has
\* been handled, and the display still shows the session as running
C19_Witness ==
    /\ Len(cbLog) = 1 /\ cbLog[1].output # <<>>
    /\ app.todoModel.CurrentView # "TerminalView"
    /\ app.todoModel.Terminal.ID = cbLog[1].sid
    /\ app.todoModel.Terminal.Running
    /\ isDone(sinks[1]).done
    /\ Len(getLines(sinks[1])) > Len(SplitLines(cbLog[1].output))
    /\ msgs = EmptyBag /\ ui.pc = "idle"

\* the IDs handed out so far that are still held by a model, a queued or
\* handled tick, or the callback history
KnownIDs ==
    {m.ID : m \in Terminals}
        \cup {msg.ID : msg \in {x \in BagToSet(msgs) : x.type = "Tick"}}
        \cup {cbLog[i].sid : i \in DOMAIN cbLog}
        \cup {ui.ID}

\* C20: every terminal.New returns a model whose ID is greater than the ID of
\* every model created before, so two sessions never share an ID
C20_IDsIncrease ==
    /\ [](\A id \in KnownIDs : id <= instanceCounter)
    /\ [](\A m1, m2 \in Terminals : m1.ID = m2.ID /\ m1.ID # 0 => m1.output = m2.output)
    /\ [][ \A f \in {"terminal", "todo", "commit"} :
              LET old == CASE f = "terminal" -> app.terminal
                           [] f = "todo" -> app.todoModel.Terminal
                           [] f = "commit" -> app.commitModel.Terminal
                  new == CASE f = "terminal" -> app'.terminal
                           [] f = "todo" -> app'.todoModel.Terminal
                           [] f = "commit" -> app'.commitModel.Terminal
              IN (new.ID # old.ID /\ new.ID # 0)
                 => /\ \A id \in KnownIDs : new.ID > id
                    /\ new.ID = instanceCounter' ]_vars

\* a second session is shown while a tick of the first one is still queued
C20_Witness ==
    /\ instanceCounter >= 2
    /\ TickTarget.ID = instanceCounter
    /\ BagIn(TickMsg(1), msgs)

\* C21: every invocation allocates a new, empty sink of its own, and a sink
\* is only ever written by the goroutines of its own invocation: it holds as
\* many lines as they have read and is done exactly if they have finished
C21_FreshSinkPerInvocation ==
    /\ [][ Len(sinks') > Len(sinks)
            => /\ sinks' = Append(sinks, NewSharedOutput)
               /\ TickTarget'.output = Len(sinks')
               /\ \A m \in Terminals : m.output # Len(sinks') ]_vars
    /\ [][ \A i \in DOMAIN sinks : sinks'[i] # sinks[i] => procs'[i] # procs[i] ]_vars
    /\ [](\A i \in DOMAIN sinks :
            /\ Len(getLines(sinks[i])) = procs[i].n["stdout"] + procs[i].n["stderr"]
            /\ isDone(sinks[i]).done <=> procs[i].pc = "exited")

\* a later invocation is shown with its sink still empty, after the
\* goroutines of the first invocation wrote lines to theirs and marked it done
C21_Witness ==
    /\ Len(sinks) >= 2
    /\ TickTarget.output = Len(sinks)
    /\ sinks[Len(sinks)] = NewSharedOutput
    /\ Len(getLines(sinks[1])) >= 2 /\ isDone(sinks[1]).done

\* C22: when the process was started, its sink is marked done only after
\* both reader loops have ended and cmd.Wait has returned
C22_DoneAfterReadersAndWait ==
    /\ [](\A i \in DOMAIN sinks :
            (isDone(sinks[i]).done /\ procs[i].rd["stdout"] # "none")
            => /\ procs[i].rd["stdout"] = "done" /\ procs[i].rd["stderr"] = "done"
               /\ procs[i].pc = "exited"
               /\ isDone(sinks[i]).err = procs[i].ret /\ procs[i].ret \in {nil, ExitErr})
    /\ [][ \A i \in DOMAIN sinks :
              (~isDone(sinks[i]).done /\ isDone(sinks'[i]).done) => procs[i].pc = "return" ]_vars

\* a sink marked done with the exit error of a process both of whose streams
\* were read, while the modal has not yet seen it done
C22_Witness ==
    \E i \in DOMAIN sinks :
        /\ isDone(sinks[i]).done /\ isDone(sinks[i]).err = ExitErr
        /\ procs[i].n["stdout"] >= 1 /\ procs[i].n["stderr"] >= 1
        /\ TickTarget.output = i /\ TickTarget.Running

\* the letters a .. z
LowerLetters == DOMAIN ToUpper

\* the key a binding stands for: "shift+" followed by one lowercase letter stands for the
\* uppercase letter, any other binding for itself
Normalized(binding) ==
    IF \E l \in LowerLetters : binding = "shift+" \o l
    THEN ToUpper[CHOOSE l \in LowerLetters : binding = "shift+" \o l]
    ELSE binding

Called(fn) == conf.match.fn = fn

\* C23: Matches(key, binding) is true exactly when the key equals the normalized binding:
\* shift+<one lowercase letter> normalizes to the uppercase letter, every other binding
\* (shift+tab, an uppercase letter) to itself; shift+a matches A and does not match a
C23_MatchesNormalized ==
    /\ Called("Matches") =>
          conf.match.result = (conf.match.key = Normalized(conf.match.bindings[1]))
    /\ Matches("A", "shift+a") /\ ~Matches("a", "shift+a")
    /\ Matches("shift+tab", "shift+tab") /\ ~Matches("tab", "shift+tab")
    /\ Matches("G", "G") /\ Matches("G", "shift+g")

C23_Witness ==
    /\ Called("Matches")
    /\ conf.match.key = "A" /\ conf.match.bindings = <<"shift+a">> /\ conf.match.result

\* C24: MatchesAny(key, bindings...) is true if and only if Matches(key, b) is true for at
\* least one b of bindings; it is false for the empty list
C24_MatchesAnyIsExists ==
    Called("MatchesAny") =>
        /\ conf.match.result = (\E i \in DOMAIN conf.match.bindings :
                                    Matches(conf.match.key, conf.match.bindings[i]))
        /\ conf.match.bindings = <<>> => ~conf.match.result

C24_Witness ==
    /\ Called("MatchesAny")
    /\ Len(conf.match.bindings) = 2
    /\ ~Matches(conf.match.key, conf.match.bindings[1])
    /\ Matches(conf.match.key, conf.match.bindings[2])
    /\ conf.match.result

\* a keybindings.json that decodes to the Keybindings k
FileHolds(file, k) == file.exists /\ file.valid /\ Unmarshal(file.doc) = k

\* C25: LoadKeybindings on a store with no keybindings file creates the file with the
\* defaults and returns the defaults; LoadKeybindings after SaveKeybindings(k) returns every
\* non-empty field of k unchanged and the default of every empty field
C25_LoadCreatesAndRoundTrips ==
    [][(conf'.op = "Load" /\ conf'.err # ReadErr) =>
          /\ (~conf.file.exists /\ conf'.err = nil) =>
                /\ conf'.kb = <<DefaultKeybindings>>
                /\ FileHolds(conf'.file, DefaultKeybindings)
          /\ conf.saved # <<>> =>
                /\ conf'.err = nil
                /\ Len(conf'.kb) = 1
                /\ \A sec \in Sections : \A f \in Fields(sec) :
                      conf'.kb[1][sec][f] = IF conf.saved[1][sec][f] # "" THEN conf.saved[1][sec][f]
                                            ELSE DefaultKeybindings[sec][f]]_vars

C25_Witness ==
    /\ conf.op = "Load" /\ conf.err = nil
    /\ conf.saved # <<>> /\ conf.kb # <<>>
    /\ conf.saved[1].Global.Quit = "" /\ conf.kb[1].Global.Quit = "esc"
    /\ conf.saved[1].Global.Help = "<" /\ conf.kb[1].Global.Help = "<"
    /\ conf.saved[1].List.New = "shift+a" /\ conf.kb[1].List.New = "shift+a"

\* the model whose RunCommandWithEnv allocated the newest sink
Opened == {m \in Terminals : m.output = Len(sinks)}

\* C26: immediately after RunCommandWithEnv the display buffer is the header line and one
\* blank line, ScrollPos is 0, Err is nil, Running is true, and exactly one tick carrying
\* the model's ID is scheduled
C26_OpenResetsBuffers ==
    [][Len(sinks') > Len(sinks) =>
          /\ Opened' # {}
          /\ \A m \in Opened' :
                /\ m.Lines = <<Header(m.Command), "">>
                /\ m.ScrollPos = 0
                /\ m.Err = nil
                /\ m.Running
                /\ CopiesIn(TickMsg(m.ID), msgs) = 0
                /\ CopiesIn(TickMsg(m.ID), msgs') = 1
                /\ \A id \in KnownIDs \ {m.ID} :
                      CopiesIn(TickMsg(id), msgs') = CopiesIn(TickMsg(id), msgs)]_vars

\* a second session has just been opened: its buffer is reset and its tick is queued
C26_Witness ==
    /\ instanceCounter = 2
    /\ \E m \in Opened :
          /\ m.ID = 2 /\ m.Running /\ Len(m.Lines) = 2 /\ m.ScrollPos = 0
          /\ CopiesIn(TickMsg(2), msgs) = 1

\* C27: a matching tick processed while AutoScroll is true leaves ScrollPos at maxScroll()
\* of the resulting buffer, also when it is the completing tick that appends the status
\* line; a tick processed while AutoScroll is false leaves ScrollPos alone; AutoScroll is
\* never changed by a tick
C27_TickFollowsBottom ==
    [][(TickHandled(app.terminal) /\ app.currentView = "TerminalTestView") =>
          /\ app'.terminal.AutoScroll = app.terminal.AutoScroll
          /\ app.terminal.AutoScroll =>
                app'.terminal.ScrollPos = Max(0, Len(app'.terminal.Lines) - visibleLines(app'.terminal))
          /\ ~app.terminal.AutoScroll => app'.terminal.ScrollPos = app.terminal.ScrollPos]_vars

\* the completing tick has pushed the bottom of the buffer below the viewport and the
\* offset has followed it
C27_Witness ==
    /\ app.currentView = "TerminalTestView"
    /\ ~app.terminal.Running /\ StatusCount(app.terminal) = 1
    /\ app.terminal.AutoScroll
    /\ app.terminal.ScrollPos = maxScroll(app.terminal)
    /\ app.terminal.ScrollPos >= 2

\* C28: rendering reads only indices 0 <= i < len(Lines); the visible window is
\* Lines[ScrollPos : min(ScrollPos + visibleLines(), len(Lines))], a well-formed slice of
\* the buffer, also after a resize that enlarges the viewport while scrolled down
C28_ViewWithinBuffer ==
    \A m \in Terminals :
        /\ ViewReads(m) \subseteq 0..(Len(m.Lines) - 1)
        /\ 0 <= m.ScrollPos /\ m.ScrollPos <= Len(m.Lines)
        /\ ViewReads(m) = m.ScrollPos..(Min(m.ScrollPos + visibleLines(m), Len(m.Lines)) - 1)
        /\ \A k \in 1..Cardinality(ViewReads(m)) : ViewContent(m)[k] = m.Lines[m.ScrollPos + k]

\* the viewport was enlarged while the modal was scrolled to the bottom: the offset lies
\* beyond maxScroll() and the window ends at the end of the buffer
C28_Witness ==
    /\ app.currentView = "TerminalTestView"
    /\ app.terminal.ScrollPos > maxScroll(app.terminal)
    /\ app.terminal.ScrollPos + visibleLines(app.terminal) > Len(app.terminal.Lines)
    /\ ViewReads(app.terminal) # {}

\* the number of header lines (the command line and the blank line after it) that the
\* display buffer of m still starts with; output lines are never empty
HeaderKept(m) ==
    IF m.Lines = <<>> THEN 0
    ELSE IF m.Lines[1] = Header(m.Command) THEN 2
    ELSE IF m.Lines[1] = "" THEN 1
    ELSE 0

\* C29: GetOutput is the newline-join of the retained output lines and the status lines,
\* that is of the display buffer without its header lines, also after the buffer has been
\* truncated to MaxLines: no output line is dropped in place of the header
C29_GetOutputDropsOnlyHeader ==
    \A m \in Terminals :
        m.output # NoSink =>
            Join(GetOutput(m)) = Join(SubSeq(m.Lines, HeaderKept(m) + 1, Len(m.Lines)))

\* the states of the commit flow in which a command runs in the modal
Busy == {"StateGenerating", "StateCommitting"}

\* a TickMsg carrying the ID of the commit flow's terminal has just been handled
CommitTick ==
    /\ ui.pc = "tick" /\ ui'.pc = "idle"
    /\ app.currentView = "CommitView"
    /\ ui.ID = app.commitModel.Terminal.ID

\* C30: the commit flow leaves StateGenerating, and likewise StateCommitting, exactly once,
\* on the first matching tick that finds the terminal finished: to StateError with ErrMsg
\* set if the terminal's Err is not nil, otherwise to StateEditing with Subject and Body
\* parsed from the raw output, respectively to StateDone; afterwards no tick of that
\* session is left and a tick changes nothing
C30_FlowLeavesBusyOnce ==
    /\ [][(app.commitModel.State \in Busy /\ app'.commitModel.State # app.commitModel.State
              /\ app'.commitModel.State \notin {"nil", "StateChecking"}) =>
            LET c == app.commitModel
                d == app'.commitModel
            IN /\ CommitTick
               /\ c.Terminal.Running /\ ~d.Terminal.Running
               /\ isDone(sinks[c.Terminal.output]).done
               /\ d.Terminal.Err = isDone(sinks[c.Terminal.output]).err
               /\ IF d.Terminal.Err # nil
                  THEN d.State = "StateError" /\ d.ErrMsg # "" /\ d.Subject = c.Subject
                  ELSE IF c.State = "StateGenerating"
                  THEN LET p == parseCommitMessage(TrimSpace(Join(getLines(sinks[c.Terminal.output]))))
                       IN d.State = "StateEditing" /\ d.Subject = p.subject /\ d.Body = p.body
                  ELSE d.State = "StateDone"]_vars
    /\ [][(CommitTick /\ app.commitModel.State \in Busy
              /\ isDone(sinks[app.commitModel.Terminal.output]).done)
            => app'.commitModel.State \notin Busy]_vars
    /\ [][(ui.pc = "tick" /\ ui'.pc = "idle" /\ app.commitModel.State \notin Busy)
            => app'.commitModel = app.commitModel]_vars
    /\ [](app.commitModel.State \in {"StateEditing", "StateDone", "StateError"}
            /\ app.commitModel.Terminal.output # NoSink
            => /\ ~BagIn(TickMsg(app.commitModel.Terminal.ID), msgs)
               /\ ~(ui.pc = "tick" /\ ui.ID = app.commitModel.Terminal.ID))

\* C31: the submit key pressed in StateEditing with an empty Subject starts no commit: the
\* State stays StateEditing, ErrMsg becomes the subject-required message, and no terminal
\* session, sink, process or tick is created
C31_EmptySubjectNeverCommits ==
    [][(/\ app.currentView = "CommitView"
        /\ app.commitModel.State = "StateEditing"
        /\ app.commitModel.Subject = <<>>
        /\ Key(kb.Form.Submit))
          => /\ app'.commitModel = [app.commitModel EXCEPT !.ErrMsg = "Subject is required"]
             /\ app'.commitModel.State = "StateEditing"
             /\ instanceCounter' = instanceCounter
             /\ sinks' = sinks /\ procs' = procs /\ msgs' = msgs]_vars

C31_Witness ==
    /\ app.currentView = "CommitView"
    /\ app.commitModel.State = "StateEditing"
    /\ app.commitModel.Subject = <<>>
    /\ app.commitModel.ErrMsg = "Subject is required"
    /\ ~app.commitModel.Terminal.Running

\* C32: the commit subject is limited to SubjectLimit characters: in every StateEditing
\* state, the one entered from the generated message included, and when doCommit runs,
\* len(Subject) <= SubjectLimit
C32_SubjectWithinLimit ==
    /\ [](app.commitModel.State = "StateEditing"
            => ByteLen(app.commitModel.Subject) <= SubjectLimit)
    /\ [][(app.commitModel.State = "StateEditing" /\ app'.commitModel.State = "StateCommitting")
            => ByteLen(app.commitModel.Subject) <= SubjectLimit]_vars

\* C33: form editing is a two-mode state machine: while FormEditing is true no key event
\* changes CurrentView or FormField or submits the form, and the cancel key only clears
\* FormEditing; FormEditing becomes true only while FormField is not FieldPrompts
C33_FormEditIsModal ==
    /\ [][(app.todoModel.FormEditing /\ \E k \in FormKeys : Key(k))
            => /\ app'.todoModel.CurrentView = app.todoModel.CurrentView
               /\ app'.todoModel.FormField = app.todoModel.FormField
               /\ msgs' = msgs /\ store' = store]_vars
    /\ [][(app.todoModel.FormEditing /\ Key(kb.Form.Cancel))
            => app'.todoModel = [app.todoModel EXCEPT !.FormEditing = FALSE, !.ErrMsg = ""]]_vars
    /\ [][(~app.todoModel.FormEditing /\ app'.todoModel.FormEditing)
            => app.todoModel.FormField # FieldPrompts]_vars

\* the entries of the list without the one at position i
Without(list, i) == SubSeq(list, 1, i - 1) \o SubSeq(list, i + 1, Len(list))

C35_BusyMeansRunning ==
    /\ [](app.commitModel.State \in Busy => app.commitModel.Terminal.Running)
    /\ [][(app.commitModel.State \in Busy /\ app.commitModel.Terminal.Running
              /\ ~app'.commitModel.Terminal.Running)
            => app'.commitModel.State \notin Busy]_vars

\* the commit command has finished and the tick that saw it has ended the flow
C35_Witness ==
    /\ app.currentView = "CommitView"
    /\ app.commitModel.State = "StateDone"
    /\ app.commitModel.Terminal.output # NoSink
    /\ ~app.commitModel.Terminal.Running

\* C36: in todo.Model, Improving is true and TerminalCallback is not nil if and only if
\* CurrentView is TerminalView, under every interleaving of keys, ticks and the messages
\* of the store commands
C36_ImprovingIffTerminalView ==
    (app.todoModel.Improving /\ app.todoModel.TerminalCallback # NoCallback)
        <=> app.todoModel.CurrentView = "TerminalView"

\* C37: in the todo list view, after any sequence of navigation keys and list reloads,
\* 0 <= Cursor and, when Todos is not empty, Cursor < len(Todos); select and delete never
\* index Todos out of range
C37_CursorWithinTodos ==
    /\ ui.pc # "panic"
    /\ app.todoModel.CurrentView # "nil" =>
          /\ 0 <= app.todoModel.Cursor
          /\ app.todoModel.Todos # <<>> => app.todoModel.Cursor < Len(app.todoModel.Todos)

\* C38: in the todo form FormPrompts is never empty and 0 <= FormPromptIdx <
\* len(FormPrompts), after any form navigation, add-prompt, delete-prompt, prompt-editor
\* save or cancel and terminal close; FormPrompts[FormPromptIdx] is always a valid access
C38_PromptIdxWithinPrompts ==
    /\ ui.pc # "panic"
    /\ app.todoModel.CurrentView # "nil" =>
          /\ app.todoModel.FormPrompts # <<>>
          /\ 0 <= app.todoModel.FormPromptIdx
          /\ app.todoModel.FormPromptIdx < Len(app.todoModel.FormPrompts)

\* the modal was closed, its callback has run, and the form holds the improved prompt alone
C38_Witness ==
    /\ app.todoModel.CurrentView = "EditView"
    /\ Len(cbLog) > 0
    /\ Len(app.todoModel.FormPrompts) = 1
    /\ app.todoModel.FormPromptIdx = 0
    /\ app.todoModel.FormPrompts[1] \notin {<<>>, <<"p">>}

\* C39: each successful AddTodo adds exactly one entry to the stored list and loses none
\* of the entries stored before, also when two store commands run concurrently
C39_AddTodoKeepsEntries ==
    [][\A c \in BagToSet(msgs) :
          (c.type = "CmdAddTodo" /\ CmdSaveTodos(c) /\ conf'.err = nil)
            => /\ Len(store') = Len(store) + 1
               /\ \A i \in DOMAIN store : \E j \in DOMAIN store' : store'[j] = store[i]
               /\ \E j \in DOMAIN store' : store'[j] = c.t]_vars

\* C40: for every terminal session at most one tick carrying the session's ID is pending
\* at any time, and while a tick of the session is being handled none is pending: the sink
\* is polled by at most one tick chain per session
C40_OneTickPerSession ==
    \A id \in 1..MaxSessions :
        /\ CopiesIn(TickMsg(id), msgs) <= 1
        /\ (ui.pc = "tick" /\ ui.ID = id) => CopiesIn(TickMsg(id), msgs) = 0

\* the tick of the running session is pending again after a tick has shown output
C40_Witness ==
    /\ app.currentView = "TerminalTestView"
    /\ app.terminal.Running
    /\ Len(app.terminal.Lines) > 2
    /\ CopiesIn(TickMsg(app.terminal.ID), msgs) = 1

====
